---- MODULE Spec2Model ----
(***************************************************************************)
(* The EIP-7702 demonstration scripts as state machines running against a  *)
(* model of the chain and the bundler.                                     *)
(*                                                                         *)
(*   sendErc20With7702  (src/unnamed/part_003, lines 86-341)  "single"     *)
(*   batch transfer     (src/unnamed/part_000)                "batch"      *)
(*   fundNewWallet      (src/scripts/fundNewWallet.ts, 1-192) "fund"       *)
(*                                                                         *)
(* One invocation is one operating-system process: proc[i] holds its local *)
(* variables under the names the source gives them, pc is the await the    *)
(* process is suspended at.  The chain is shared by all invocations.       *)
(* Token amounts are in whole TTK (the source multiplies by 10^18), ETH    *)
(* amounts in tenths of an ETH.                                            *)
(***************************************************************************)
EXTENDS Integers, Sequences, FiniteSets, TLC

\* ------------------------------------------------------------- bounds
MaxInv == 2            \* invocations of a script in one behaviour
MaxInitTxCount == 1    \* transactions the EOA may have sent before the first run

\* --------------------------------------------------- program constants
amount == 10           \* single transfer: 10 TTK
amount1 == 10          \* batch: 10 TTK to receiver1
amount2 == 20          \* batch: 20 TTK to receiver2
ttkToSend == 10000     \* fundNewWallet: 10,000 TTK
ethToSend == 1         \* fundNewWallet: parseEther('0.1'), in tenths of an ETH
SepoliaId == 11155111  \* sepolia.id
SIMPLE_ACCOUNT_LOGIC_ADDRESS == "0xe6Cae83BdE06E4c305530e199D7217f42808555B"

\* ------------------------------------------------------------ addresses
Owner == "owner"             \* owner.address; with EIP-7702 also the account address
Token == "token"             \* a well-formed ERC20_TOKEN_ADDRESS
Receiver1 == "receiver1"     \* a well-formed RECEIVER_ADDRESS
Receiver2 == "receiver2"     \* a well-formed RECEIVER_ADDRESS2
NewWallet == "newWallet"     \* a well-formed ADDRESS2
Holders == {Owner, Receiver1, Receiver2, NewWallet}

Inv == 1..MaxInv
Scripts == {"single", "batch", "fund"}

\* ------------------------------------------------- process.env (.env file)
Undefined == "undefined"     \* the key is absent from the environment
Placeholder == "0x"          \* the placeholder the template .env ships with
EnvKeys == {"PRIVATE_KEY", "SEPOLIA_RPC_URL", "PIMLICO_API_KEY",
            "ERC20_TOKEN_ADDRESS", "RECEIVER_ADDRESS", "RECEIVER_ADDRESS2", "ADDRESS2"}

ValidEnv ==
  [PRIVATE_KEY |-> "0xkey", SEPOLIA_RPC_URL |-> "https://rpc", PIMLICO_API_KEY |-> "pim_key",
   ERC20_TOKEN_ADDRESS |-> Token, RECEIVER_ADDRESS |-> Receiver1,
   RECEIVER_ADDRESS2 |-> Receiver2, ADDRESS2 |-> NewWallet]

\* A complete .env, or one with a single key absent or left at the placeholder.
EnvChoices ==
  {ValidEnv} \cup { [ValidEnv EXCEPT ![k] = v] : k \in EnvKeys, v \in {Undefined, Placeholder} }

\* JavaScript's !x on a string-or-undefined value.
Falsy(v) == v = Undefined \/ v = ""

\* ------------------------------------------------------------ the .env file
\* A line "<key>=<value>" of the file.
EnvLine(key, value) == [key |-> key, value |-> value]

\* The .env of a project whose token has been deployed.
DeployedEnvFile == <<EnvLine("ERC20_TOKEN_ADDRESS", ValidEnv.ERC20_TOKEN_ADDRESS)>>

\* The line contains the text "ERC20_TOKEN_ADDRESS=": its key is that name or
\* ends in it.
MentionsTokenKey(line) == line.key \in {"ERC20_TOKEN_ADDRESS", "OLD_ERC20_TOKEN_ADDRESS"}

\* dotenv: the value of the last line that defines the key, undefined without one.
EnvValue(content, key) ==
  LET ks == {k \in 1..Len(content) : content[k].key = key}
  IN IF ks = {} THEN Undefined
     ELSE content[CHOOSE k \in ks : \A j \in ks : j <= k].value

\* updateEnvFile: envContent.replace(/ERC20_TOKEN_ADDRESS=.*/, ...) rewrites the
\* rest of the first line that contains the text; without such a line the
\* definition is appended.
UpdateEnvContent(content, contractAddress) ==
  LET ks == {k \in 1..Len(content) : MentionsTokenKey(content[k])}
  IN IF ks # {}
       THEN [content EXCEPT ![CHOOSE k \in ks : \A j \in ks : k <= j].value = contractAddress]
       ELSE Append(content, EnvLine("ERC20_TOKEN_ADDRESS", contractAddress))

\* What dotenv hands to a process started with this file; the other keys are
\* the operator's and no script writes them.
EnvFrom(content) ==
  [ValidEnv EXCEPT !.ERC20_TOKEN_ADDRESS = EnvValue(content, "ERC20_TOKEN_ADDRESS")]

\* ------------------------------------------------------------- state
VARIABLES
  proc,        \* proc[i]: the local state of invocation i
  delegated,   \* chain: the EOA's code points at the SimpleAccount implementation
  txCount,     \* chain: the EOA's transaction count (its nonce)
  aaNonce,     \* chain: the account's EntryPoint (UserOperation) nonce
  balance,     \* chain: TTK balance of each holder
  ethBalance,  \* chain: ETH balance of each holder, in tenths
  mempool,     \* bundler / node: submitted and not yet included
  receipts,    \* chain: receipts[h] of every transaction hash h
  blockNumber, \* chain: the number of the latest block
  envFile      \* the .env file of the project directory: a sequence of lines

vars ==
  <<proc, delegated, txCount, aaNonce, balance, ethBalance, mempool, receipts, blockNumber,
    envFile>>

\* What a process shares with the others: the chain, the mempool and the .env file.
chainVars ==
  <<delegated, txCount, aaNonce, balance, ethBalance, mempool, receipts, blockNumber, envFile>>

\* Transaction hashes: invocation i's UserOperation lands in transaction i, the
\* ETH transfer of a fundNewWallet invocation in transaction MaxInv + i, the
\* contract creation of a deployToken invocation in transaction 2 * MaxInv + i.
OpHash(i) == i
EthHash(i) == MaxInv + i
DeployHash(i) == 2 * MaxInv + i
Hashes == 1..(2 * MaxInv)
DeployHashes == {DeployHash(i) : i \in 1..MaxInv}
NoHash == 0
NoReceipt == [status |-> "none", transferEvents |-> 0, blockNumber |-> 0]

\* ------------------------------------------------- call data (ABI encoding)
\* Call data is a sequence of ABI words.  A word is a function selector, an
\* address or an unsigned integer.
Selector(name) == [sel |-> name, addr |-> "", uint |-> 0]
AddrWord(a) == [sel |-> "", addr |-> a, uint |-> 0]
UintWord(n) == [sel |-> "", addr |-> "", uint |-> n]

\* encodeFunctionData({abi: erc20Abi, functionName: 'transfer', args: [to, amt]})
TransferData(to, amt) == <<Selector("transfer"), AddrWord(to), UintWord(amt)>>

\* One call descriptor {to, value, data}.
Call(to, value, data) == [to |-> to, value |-> value, data |-> data]

\* The words of one call inside the account's call data: to, value, the length
\* of the data, then the data.
EncodeCall(c) == <<AddrWord(c.to), UintWord(c.value), UintWord(Len(c.data))>> \o c.data

RECURSIVE EncodeCallList(_)
EncodeCallList(cs) ==
  IF cs = <<>> THEN <<>> ELSE EncodeCall(Head(cs)) \o EncodeCallList(Tail(cs))

\* account.encodeCalls(calls): execute(to, value, data) for one call,
\* executeBatch(Call[]) for several.
EncodeCalls(cs) ==
  IF Len(cs) = 1
    THEN <<Selector("execute")>> \o EncodeCall(cs[1])
    ELSE <<Selector("executeBatch"), UintWord(Len(cs))>> \o EncodeCallList(cs)

RECURSIVE DecodeCallList(_, _)
DecodeCallList(words, n) ==
  IF n = 0 \/ Len(words) < 3 THEN <<>>
  ELSE LET len == words[3].uint
           c == Call(words[1].addr, words[2].uint, SubSeq(words, 4, 3 + len))
       IN <<c>> \o DecodeCallList(SubSeq(words, 4 + len, Len(words)), n - 1)

\* What the account contract reads back from the call data it is handed.
DecodeCalls(data) ==
  IF data = <<>> THEN <<>>
  ELSE IF Head(data) = Selector("execute") THEN DecodeCallList(Tail(data), 1)
  ELSE IF Head(data) = Selector("executeBatch")
    THEN DecodeCallList(SubSeq(data, 3, Len(data)), data[2].uint)
  ELSE <<>>

\* ------------------------------------------------------- chain execution
The(S) == CHOOSE x \in S : TRUE

\* The account runs the decoded calls in order and stops at the first failing
\* call; bal then holds the effects of the calls before it.  A call to the token
\* is an ERC-20 transfer out of the account, a call to the account itself
\* carries nested call data (executeBatch).  ev counts the Transfer events.
RECURSIVE RunCalls(_, _, _)
RunCalls(bal, ev, cs) ==
  IF cs = <<>> THEN [ok |-> TRUE, bal |-> bal, ev |-> ev]
  ELSE LET c == Head(cs) IN
    IF c.to = Token /\ Len(c.data) = 3 /\ c.data[1] = Selector("transfer")
      THEN LET to == c.data[2].addr
               amt == c.data[3].uint
           IN IF bal[Owner] >= amt /\ to \in Holders
                THEN RunCalls([[bal EXCEPT ![Owner] = @ - amt] EXCEPT ![to] = @ + amt],
                              ev + 1, Tail(cs))
                ELSE [ok |-> FALSE, bal |-> bal, ev |-> 0]
    ELSE IF c.to = Owner
      THEN LET inner == RunCalls(bal, ev, DecodeCalls(c.data))
           IN IF inner.ok THEN RunCalls(inner.bal, inner.ev, Tail(cs))
              ELSE [ok |-> FALSE, bal |-> inner.bal, ev |-> 0]
    ELSE RunCalls(bal, ev, Tail(cs))

\* Mutant: a failing execution keeps the effects of the calls that ran.
ExecuteKeepPartial(bal, callData) == RunCalls(bal, 0, DecodeCalls(callData))

\* Execution of a UserOperation's call data against the token balances: all of
\* the calls take effect, or the execution reverts and none does.
Execute(bal, callData) ==
  LET r == RunCalls(bal, 0, DecodeCalls(callData))
  IN IF r.ok THEN r ELSE [ok |-> FALSE, bal |-> bal, ev |-> 0]

\* An EIP-7702 authorization is applied when it names this chain and the
\* authority's current transaction count.
AuthApplies(op) ==
  /\ op.auth # {}
  /\ The(op.auth).chainId = SepoliaId
  /\ The(op.auth).nonce = txCount
  /\ The(op.auth).signer = Owner

\* The account can validate a UserOperation when it has code, or gets it from
\* the authorization carried by the same transaction.
OpValid(op) == delegated \/ AuthApplies(op)

\* ----------------------------------------------------- process local state
MaxCallers == 2        \* calls of the clients module's getters in one process
Callers == 1..MaxCallers

\* A call of a getter that has not been made yet.
IdleCaller == [fn |-> "none", pc |-> "idle", account |-> {}, result |-> {}]

InitProc ==
  [script |-> "none", env |-> ValidEnv, pc |-> "idle",
   exitCode |-> {}, error |-> "", out |-> {}, netCalls |-> 0,
   senderBalanceBefore |-> {}, receiver1BalanceBefore |-> {}, receiver2BalanceBefore |-> {},
   senderBalanceAfter |-> {}, receiver1BalanceAfter |-> {}, receiver2BalanceAfter |-> {},
   currentEthBalance |-> {}, currentTtkBalance |-> {},
   isDeployed |-> {}, isDeployedAfter |-> {}, nonce |-> {}, authorization |-> {},
   transferData |-> <<>>, calls |-> <<>>, batchCallData |-> <<>>, txParams |-> {},
   hash |-> NoHash, receipt |-> NoReceipt, ethTxHash |-> NoHash, ethReceipt |-> NoReceipt,
   sent |-> 0, txCountAtRead |-> {}, txCountAtSign |-> {}, checkedAtBlock |-> {},
   sendCalls |-> 0, steps |-> <<>>, checkedAfterAtBlock |-> {}, failedReads |-> 0]

Running(i) == proc[i].pc \notin {"idle", "exit"}
Exited(i) == proc[i].pc = "exit"

Set(i, p) == proc' = [proc EXCEPT ![i] = p]

\* An uncaught error: main().catch prints the diagnostic and calls process.exit(1).
Fail(p, class) ==
  [p EXCEPT !.pc = "exit", !.exitCode = {1}, !.error = class, !.out = @ \cup {"diagnostic"}]

\* main() returns: the process ends with exit code 0.
Finish(p) == [p EXCEPT !.pc = "exit", !.exitCode = {0}]

\* --------------------------------------------------------- configuration
\* Module evaluation of publicClient, owner and clients, in import order.
ImportError(env) ==
  IF Falsy(env.SEPOLIA_RPC_URL) THEN "SEPOLIA_RPC_URL is missing in .env"
  ELSE IF Falsy(env.PRIVATE_KEY) THEN "PRIVATE_KEY is missing in .env"
  ELSE IF env.PRIVATE_KEY = Placeholder THEN "invalid private key"
  ELSE IF Falsy(env.PIMLICO_API_KEY) THEN "PIMLICO_API_KEY is missing in .env"
  ELSE ""

\* The checks at the top of main() of the single-transfer script.
SingleConfigError(env) ==
  IF Falsy(env.ERC20_TOKEN_ADDRESS) \/ env.ERC20_TOKEN_ADDRESS = Placeholder
    THEN "ERC20_TOKEN_ADDRESS is missing in .env"
  ELSE IF Falsy(env.RECEIVER_ADDRESS) \/ env.RECEIVER_ADDRESS = Placeholder
    THEN "RECEIVER_ADDRESS is missing in .env"
  ELSE ""

\* The checks at the top of main() of the batch script.
BatchConfigError(env) ==
  IF Falsy(env.ERC20_TOKEN_ADDRESS) \/ env.ERC20_TOKEN_ADDRESS = Placeholder
    THEN "ERC20_TOKEN_ADDRESS is missing in .env"
  ELSE IF Falsy(env.RECEIVER_ADDRESS) \/ env.RECEIVER_ADDRESS = Placeholder
    THEN "RECEIVER_ADDRESS is missing in .env"
  ELSE IF Falsy(env.RECEIVER_ADDRESS2)
    THEN "RECEIVER_ADDRESS2 is missing in .env"
  ELSE ""

\* The checks at the top of main() of fundNewWallet.
FundConfigError(env) ==
  IF Falsy(env.ADDRESS2) THEN "ADDRESS2 is missing in .env (new wallet address)"
  ELSE IF Falsy(env.ERC20_TOKEN_ADDRESS) \/ env.ERC20_TOKEN_ADDRESS = Placeholder
    THEN "ERC20_TOKEN_ADDRESS is missing in .env"
  ELSE ""

ConfigError(script, env) ==
  CASE script = "single" -> SingleConfigError(env)
    [] script = "batch" -> BatchConfigError(env)
    [] script = "check" -> ""
    [] OTHER -> FundConfigError(env)

\* The environment values a script reads.
Required(script) ==
  {"PRIVATE_KEY", "SEPOLIA_RPC_URL", "PIMLICO_API_KEY", "ERC20_TOKEN_ADDRESS"} \cup
  CASE script = "single" -> {"RECEIVER_ADDRESS"}
    [] script = "batch" -> {"RECEIVER_ADDRESS", "RECEIVER_ADDRESS2"}
    [] OTHER -> {"ADDRESS2"}

\* viem refuses to encode or send to a string that is not an address.
IsAddress(a) == a \in Holders \cup {Token}

\* A JSON-RPC request through publicClient reaches the node.
RpcReachable(env) == env.SEPOLIA_RPC_URL = ValidEnv.SEPOLIA_RPC_URL

\* The bundler accepts the API key in the transport URL.
BundlerReachable(env) == env.PIMLICO_API_KEY = ValidEnv.PIMLICO_API_KEY

\* ------------------------------------------------------------ start-up
\* The operator runs one of the scripts with a .env out of envs, after the
\* runs before it have ended.
StartWith(i, envs) ==
  /\ proc[i].pc = "idle"
  /\ \A j \in Inv : j < i => proc[j].pc = "exit"
  /\ \E s \in Scripts, e \in envs :
       Set(i, [proc[i] EXCEPT !.script = s, !.env = e, !.pc = "import"])
  /\ UNCHANGED chainVars

\* A run with a complete .env.
Start(i) == StartWith(i, {ValidEnv})

\* A first run with any .env of EnvChoices.
StartAnyEnv == StartWith(1, EnvChoices)

\* The imports are evaluated before main() is called.
Import(i) ==
  /\ proc[i].pc = "import"
  /\ Set(i, IF ImportError(proc[i].env) # ""
              THEN Fail(proc[i], "config")
              ELSE [proc[i] EXCEPT !.pc = "main"])
  /\ UNCHANGED chainVars

\* main(): read process.env and validate it.
CheckConfig(i) ==
  /\ proc[i].pc = "main"
  /\ Set(i, IF ConfigError(proc[i].script, proc[i].env) # ""
              THEN Fail(proc[i], "config")
              ELSE [proc[i] EXCEPT !.pc = "getClient"])
  /\ UNCHANGED chainVars

\* await getSmartAccountClient(): builds the account and the client locally.
GetSmartAccountClient(i) ==
  /\ proc[i].pc = "getClient"
  /\ Set(i, [proc[i] EXCEPT
        !.pc = IF proc[i].script = "check" THEN "statusDeployed" ELSE "balancesBefore"])
  /\ UNCHANGED chainVars

\* ------------------------------------- single transfer and batch transfer
Send7702(i) == proc[i].script \in {"single", "batch"}

\* The addresses whose balanceOf is read, in the order of the Promise.all array.
BalanceReads(script, env) ==
  IF script = "single" THEN <<Owner, env.RECEIVER_ADDRESS>>
  ELSE <<Owner, env.RECEIVER_ADDRESS, env.RECEIVER_ADDRESS2>>

\* readContract encodes its arguments before it sends: the reads in front of the
\* first one whose argument is no address have been sent when that one throws.
Issued(reads) ==
  IF \A k \in 1..Len(reads) : IsAddress(reads[k]) THEN Len(reads)
  ELSE (CHOOSE k \in 1..Len(reads) :
          ~IsAddress(reads[k]) /\ \A j \in 1..(k - 1) : IsAddress(reads[j])) - 1

\* Mutant: the two amounts change places.
BatchCallsSwapped(tokenAddress, receiver1, receiver2) ==
  << Call(tokenAddress, 0, TransferData(receiver1, amount2)),
     Call(tokenAddress, 0, TransferData(receiver2, amount1)) >>

\* The calls array of the batch script.
BatchCalls(tokenAddress, receiver1, receiver2) ==
  << Call(tokenAddress, 0, TransferData(receiver1, amount1)),
     Call(tokenAddress, 0, TransferData(receiver2, amount2)) >>

\* Snapshot of the balances, then the transfer call data is encoded.
BalancesBefore(i) ==
  /\ proc[i].pc = "balancesBefore"
  /\ Send7702(i)
  /\ LET p == proc[i]
         e == p.env
         reads == BalanceReads(p.script, e)
         q == [p EXCEPT !.netCalls = @ + Issued(reads)]
     IN IF Issued(reads) < Len(reads) THEN Set(i, Fail(q, "encoding"))
        ELSE /\ RpcReachable(e)
             /\ Set(i, [q EXCEPT
                   !.senderBalanceBefore = {balance[Owner]},
                   !.receiver1BalanceBefore = {balance[e.RECEIVER_ADDRESS]},
                   !.receiver2BalanceBefore =
                      IF p.script = "batch" THEN {balance[e.RECEIVER_ADDRESS2]} ELSE {},
                   !.transferData =
                      IF p.script = "single"
                        THEN TransferData(e.RECEIVER_ADDRESS, amount) ELSE <<>>,
                   !.calls =
                      IF p.script = "batch"
                        THEN BatchCalls(e.ERC20_TOKEN_ADDRESS, e.RECEIVER_ADDRESS,
                                        e.RECEIVER_ADDRESS2)
                        ELSE <<>>,
                   !.pc = "isDeployed"])
  /\ UNCHANGED chainVars

\* Mutant: the deployment status is ignored and every run signs.
NeedsAuthorizationAlways(isDeployed) == TRUE

\* if (!isDeployed): an authorization has to be signed.
NeedsAuthorization(isDeployed) == ~isDeployed

\* const isDeployed = await smartAccountClient.account.isDeployed()
CheckDeployed(i) ==
  /\ proc[i].pc = "isDeployed"
  /\ RpcReachable(proc[i].env)
  /\ Set(i, [proc[i] EXCEPT
        !.isDeployed = {delegated},
        !.checkedAtBlock = {blockNumber},
        !.netCalls = @ + 1,
        !.steps = Append(@, "isDeployed"),
        !.pc = IF NeedsAuthorization(delegated) THEN "getNonce"
               ELSE IF proc[i].script = "batch" THEN "encode" ELSE "send"])
  /\ UNCHANGED chainVars

\* The count getTransactionCount({address: owner.address}) answers with.
NonceSource == txCount

\* const nonce = await publicClient.getTransactionCount({address: owner.address})
ReadNonce(i) ==
  /\ proc[i].pc = "getNonce"
  /\ RpcReachable(proc[i].env)
  /\ Set(i, [proc[i] EXCEPT
        !.nonce = {NonceSource},
        !.txCountAtRead = {txCount},
        !.netCalls = @ + 1,
        !.steps = Append(@, "getNonce"),
        !.pc = "sign"])
  /\ UNCHANGED chainVars

\* Mutant: the authorization is signed over the nonce after the one read.
AuthorizationNextNonce(nonce) ==
  [contractAddress |-> SIMPLE_ACCOUNT_LOGIC_ADDRESS, chainId |-> SepoliaId,
   nonce |-> nonce + 1, signer |-> Owner]

\* The payload handed to owner.signAuthorization, signed by the owner's key.
Authorization(nonce) ==
  [contractAddress |-> SIMPLE_ACCOUNT_LOGIC_ADDRESS, chainId |-> SepoliaId,
   nonce |-> nonce, signer |-> Owner]

\* Mutant: after signing, the nonce is read and signed once more.
SignAuthorizationTwice(i) ==
  /\ proc[i].pc = "sign"
  /\ Set(i, [proc[i] EXCEPT
        !.authorization = {Authorization(The(proc[i].nonce))},
        !.txCountAtSign = {txCount},
        !.steps = Append(@, "sign"),
        !.pc = IF Len(proc[i].steps) < 4 THEN "getNonce"
               ELSE IF proc[i].script = "batch" THEN "encode" ELSE "send"])
  /\ UNCHANGED chainVars

\* authorization = await owner.signAuthorization({...}): a local signature.
SignAuthorization(i) ==
  /\ proc[i].pc = "sign"
  /\ Set(i, [proc[i] EXCEPT
        !.authorization = {Authorization(The(proc[i].nonce))},
        !.txCountAtSign = {txCount},
        !.steps = Append(@, "sign"),
        !.pc = IF proc[i].script = "batch" THEN "encode" ELSE "send"])
  /\ UNCHANGED chainVars

\* Mutant: the calls are encoded last to first.
BatchCallDataReversed(calls) ==
  EncodeCalls([k \in 1..Len(calls) |-> calls[Len(calls) + 1 - k]])

\* The call data the batch script hands to sendTransaction.
BatchCallData(calls) == EncodeCalls(calls)

\* const batchCallData = await smartAccountClient.account.encodeCalls(calls)
Encode(i) ==
  /\ proc[i].pc = "encode"
  /\ Set(i, [proc[i] EXCEPT !.batchCallData = BatchCallData(proc[i].calls), !.pc = "send"])
  /\ UNCHANGED chainVars

\* Mutant: the signed authorization is never attached.
TxParamsWithout(base, authorization) == base

\* txParams = {to, value, data}, plus authorization when one was signed.
TxParams(base, authorization) ==
  IF authorization # {} THEN base @@ [authorization |-> The(authorization)] ELSE base

\* Mutant: every submission goes to the token contract.
BaseParamsToToken(p) ==
  [to |-> p.env.ERC20_TOKEN_ADDRESS, value |-> 0,
   data |-> IF p.script = "batch" THEN p.batchCallData ELSE p.transferData]

\* The {to, value, data} of the script's submission.
BaseParams(p) ==
  IF p.script = "batch"
    THEN [to |-> Owner, value |-> 0, data |-> p.batchCallData]
    ELSE [to |-> p.env.ERC20_TOKEN_ADDRESS, value |-> 0, data |-> p.transferData]

\* smartAccountClient.sendTransaction(tx): one UserOperation whose call data is
\* the account's encoding of the single call tx.
UserOperation(h, tx) ==
  [hash |-> h, kind |-> "op", to |-> Owner, value |-> 0,
   callData |-> EncodeCalls(<<Call(tx.to, tx.value, tx.data)>>),
   auth |-> IF "authorization" \in DOMAIN tx THEN {tx.authorization} ELSE {}]

\* hash = await smartAccountClient.sendTransaction(txParams) resolves.
SendOk(i) ==
  /\ proc[i].pc = "send"
  /\ Send7702(i)
  /\ LET tx == TxParams(BaseParams(proc[i]), proc[i].authorization)
         op == UserOperation(OpHash(i), tx)
     IN /\ BundlerReachable(proc[i].env)
        /\ OpValid(op)
        /\ mempool' = mempool \cup {op}
        /\ Set(i, [proc[i] EXCEPT
              !.txParams = {tx}, !.hash = OpHash(i), !.sent = @ + 1,
              !.sendCalls = @ + 1, !.steps = Append(@, "send"),
              !.netCalls = @ + 1, !.out = @ \cup {"sent"}, !.pc = "wait"])
  /\ UNCHANGED <<delegated, txCount, aaNonce, balance, ethBalance, receipts, blockNumber,
                 envFile>>

\* Mutant: the catch block prints the debug info and does not rethrow.
SendFailGoesOn(i) ==
  /\ proc[i].pc = "send"
  /\ Send7702(i)
  /\ LET tx == TxParams(BaseParams(proc[i]), proc[i].authorization)
     IN Set(i, [proc[i] EXCEPT
              !.txParams = {tx}, !.netCalls = @ + 1, !.sendCalls = @ + 1,
              !.steps = Append(@, "send"), !.out = @ \cup {"debug"},
              !.error = "submission", !.pc = "isDeployedAfter"])
  /\ UNCHANGED chainVars

\* Mutant: a rejected submission is tried again.
SendFailRetry(i) ==
  /\ proc[i].pc = "send"
  /\ Send7702(i)
  /\ proc[i].sendCalls < 3
  /\ LET tx == TxParams(BaseParams(proc[i]), proc[i].authorization)
     IN Set(i, [proc[i] EXCEPT
              !.txParams = {tx}, !.netCalls = @ + 1, !.sendCalls = @ + 1,
              !.steps = Append(@, "send"), !.out = @ \cup {"debug"}])
  /\ UNCHANGED chainVars

\* sendTransaction rejects: the catch block prints the debug info and rethrows.
SendFail(i) ==
  /\ proc[i].pc = "send"
  /\ Send7702(i)
  /\ LET tx == TxParams(BaseParams(proc[i]), proc[i].authorization)
     IN Set(i, Fail([proc[i] EXCEPT
              !.txParams = {tx}, !.netCalls = @ + 1, !.sendCalls = @ + 1,
              !.steps = Append(@, "send"), !.out = @ \cup {"debug"}],
            "submission"))
  /\ UNCHANGED chainVars

\* The pc after a receipt that is not reverted.
AfterReceipt(p) ==
  IF p.script = "single" \/ The(p.isDeployed) = FALSE THEN "isDeployedAfter"
  ELSE "balancesAfter"

\* Mutant: the status of the receipt is not looked at.
OnReceiptAnyStatus(q, r) == [q EXCEPT !.out = @ \cup {"confirmed"}, !.pc = AfterReceipt(q)]

\* if (receipt.status === 'reverted') { console.error(...); process.exit(1) },
\* otherwise the script goes on to its verification reads.
OnReceipt(q, r) ==
  IF r.status = "reverted"
    THEN [q EXCEPT !.pc = "exit", !.exitCode = {1}, !.error = "reverted",
                   !.out = @ \cup {"diagnostic"}]
    ELSE [q EXCEPT !.out = @ \cup {"confirmed"}, !.pc = AfterReceipt(q)]

\* receipt = await publicClient.waitForTransactionReceipt({hash, timeout: 120_000})
\* resolves.
WaitReceipt(i) ==
  /\ proc[i].pc = "wait"
  /\ Send7702(i)
  /\ RpcReachable(proc[i].env)
  /\ receipts[proc[i].hash].status # "none"
  /\ LET r == receipts[proc[i].hash]
     IN Set(i, OnReceipt([proc[i] EXCEPT !.receipt = r, !.netCalls = @ + 1,
                                        !.steps = Append(@, "wait")], r))
  /\ UNCHANGED chainVars

\* Mutant: a wait without a timeout goes on waiting.
WaitUnbounded(i) ==
  /\ proc[i].pc = "wait"
  /\ Send7702(i)
  /\ receipts[proc[i].hash].status = "none"
  /\ UNCHANGED vars

\* Mutant: a timed-out wait is reported like a reverted transaction.
WaitTimeoutAsReverted(i) ==
  /\ proc[i].pc = "wait"
  /\ Send7702(i)
  /\ receipts[proc[i].hash].status = "none"
  /\ Set(i, Fail([proc[i] EXCEPT !.netCalls = @ + 1, !.steps = Append(@, "wait")],
                 "reverted"))
  /\ UNCHANGED chainVars

\* No receipt within the 120 s: waitForTransactionReceipt rejects.
WaitTimeout(i) ==
  /\ proc[i].pc = "wait"
  /\ Send7702(i)
  /\ receipts[proc[i].hash].status = "none"
  /\ Set(i, Fail([proc[i] EXCEPT !.netCalls = @ + 1, !.steps = Append(@, "wait")],
                 "timeout"))
  /\ UNCHANGED chainVars

\* const isDeployedAfter = await smartAccountClient.account.isDeployed()
CheckDeployedAfter(i) ==
  /\ proc[i].pc = "isDeployedAfter"
  /\ RpcReachable(proc[i].env)
  /\ Set(i, [proc[i] EXCEPT
        !.isDeployedAfter = {delegated},
        !.checkedAfterAtBlock = {blockNumber},
        !.netCalls = @ + 1,
        !.out = IF ~The(proc[i].isDeployed) /\ delegated
                  THEN @ \cup {"deployed-atomically"} ELSE @,
        !.pc = "balancesAfter"])
  /\ UNCHANGED chainVars

\* What the script prints after the final balances, from the receipt's logs.
Report(p) ==
  IF p.script = "single"
    THEN {IF p.receipt.transferEvents >= 1 THEN "transfer-found" ELSE "transfer-not-found",
          "success-report"}
    ELSE IF p.receipt.transferEvents = 2 THEN {"success-report"} ELSE {"warning"}

\* The final balance reads, the balance deltas, the log check and the report.
BalancesAfter(i) ==
  /\ proc[i].pc = "balancesAfter"
  /\ Send7702(i)
  /\ RpcReachable(proc[i].env)
  /\ LET p == proc[i]
         e == p.env
     IN Set(i, Finish([p EXCEPT
           !.senderBalanceAfter = {balance[Owner]},
           !.receiver1BalanceAfter = {balance[e.RECEIVER_ADDRESS]},
           !.receiver2BalanceAfter =
              IF p.script = "batch" THEN {balance[e.RECEIVER_ADDRESS2]} ELSE {},
           !.netCalls = @ + Len(BalanceReads(p.script, e)),
           !.out = @ \cup Report(p)]))
  /\ UNCHANGED chainVars

\* --------------------------------------------------------- fundNewWallet
Fund(i) == proc[i].script = "fund"

\* The four reads of the Promise.all array, by the address each is about.
FundReads(env) == <<Owner, Owner, env.ADDRESS2, env.ADDRESS2>>

\* Mutant: the token balance is not compared with the amount to send.
FundBalancesBeforeNoTtkCheck(i) ==
  /\ proc[i].pc = "balancesBefore"
  /\ Fund(i)
  /\ LET p == proc[i]
         reads == FundReads(p.env)
         q == [p EXCEPT !.netCalls = @ + Issued(reads)]
     IN IF Issued(reads) < Len(reads) THEN Set(i, Fail(q, "encoding"))
        ELSE /\ RpcReachable(p.env)
             /\ Set(i, IF ethBalance[Owner] < ethToSend
                         THEN Fail(q, "precondition")
                         ELSE [q EXCEPT !.currentEthBalance = {ethBalance[Owner]},
                                        !.currentTtkBalance = {balance[Owner]},
                                        !.receiver1BalanceBefore = {balance[p.env.ADDRESS2]},
                                        !.pc = "sendEth"])
  /\ UNCHANGED chainVars

\* The balance snapshot and the two sufficiency checks.
FundBalancesBefore(i) ==
  /\ proc[i].pc = "balancesBefore"
  /\ Fund(i)
  /\ LET p == proc[i]
         reads == FundReads(p.env)
         q == [p EXCEPT !.netCalls = @ + Issued(reads)]
     IN IF Issued(reads) < Len(reads) THEN Set(i, Fail(q, "encoding"))
        ELSE /\ RpcReachable(p.env)
             /\ Set(i, IF ethBalance[Owner] < ethToSend \/ balance[Owner] < ttkToSend
                         THEN Fail(q, "precondition")
                         ELSE [q EXCEPT !.currentEthBalance = {ethBalance[Owner]},
                                        !.currentTtkBalance = {balance[Owner]},
                                        !.receiver1BalanceBefore = {balance[p.env.ADDRESS2]},
                                        !.pc = "sendEth"])
  /\ UNCHANGED chainVars

\* walletClient.sendTransaction({to: newWalletAddress, value: ethToSend})
EthTransaction(h, to) ==
  [hash |-> h, kind |-> "eth", to |-> to, value |-> ethToSend, callData |-> <<>>, auth |-> {}]

\* const ethTxHash = await walletClient.sendTransaction(...) resolves.
SendEth(i) ==
  /\ proc[i].pc = "sendEth"
  /\ RpcReachable(proc[i].env)
  /\ ethBalance[Owner] >= ethToSend
  /\ mempool' = mempool \cup {EthTransaction(EthHash(i), proc[i].env.ADDRESS2)}
  /\ Set(i, [proc[i] EXCEPT !.ethTxHash = EthHash(i), !.sent = @ + 1,
                            !.netCalls = @ + 1, !.pc = "waitEth"])
  /\ UNCHANGED <<delegated, txCount, aaNonce, balance, ethBalance, receipts, blockNumber,
                 envFile>>

\* if (ethReceipt.status === 'reverted') throw new Error(...)
OnEthReceipt(q, r) ==
  IF r.status = "reverted" THEN Fail(q, "reverted")
  ELSE [q EXCEPT !.out = @ \cup {"eth-confirmed"}, !.pc = "send"]

\* Mutant: the script goes on to the token transfer without the ETH receipt.
WaitEthReceiptSkipped(i) ==
  /\ proc[i].pc = "waitEth"
  /\ RpcReachable(proc[i].env)
  /\ Set(i, [proc[i] EXCEPT !.netCalls = @ + 1, !.pc = "send"])
  /\ UNCHANGED chainVars

\* ethReceipt = await publicClient.waitForTransactionReceipt(...) resolves.
WaitEthReceipt(i) ==
  /\ proc[i].pc = "waitEth"
  /\ RpcReachable(proc[i].env)
  /\ receipts[proc[i].ethTxHash].status # "none"
  /\ LET r == receipts[proc[i].ethTxHash]
     IN Set(i, OnEthReceipt([proc[i] EXCEPT !.ethReceipt = r, !.netCalls = @ + 1], r))
  /\ UNCHANGED chainVars

\* No receipt of the ETH transfer within the 120 s.
WaitEthTimeout(i) ==
  /\ proc[i].pc = "waitEth"
  /\ receipts[proc[i].ethTxHash].status = "none"
  /\ Set(i, Fail([proc[i] EXCEPT !.netCalls = @ + 1], "timeout"))
  /\ UNCHANGED chainVars

\* Mutant: the funding transfer carries an authorization kept from elsewhere.
FundTxParamsWithAuthorization(env) ==
  [to |-> env.ERC20_TOKEN_ADDRESS, value |-> 0, data |-> TransferData(env.ADDRESS2, ttkToSend),
   authorization |-> Authorization(0)]

\* txParams of the token transfer: {to, value, data} and nothing else.
FundTxParams(env) ==
  [to |-> env.ERC20_TOKEN_ADDRESS, value |-> 0, data |-> TransferData(env.ADDRESS2, ttkToSend)]

\* const ttkTxHash = await smartAccountClient.sendTransaction(txParams) resolves.
FundSendOk(i) ==
  /\ proc[i].pc = "send"
  /\ Fund(i)
  /\ LET tx == FundTxParams(proc[i].env)
         op == UserOperation(OpHash(i), tx)
     IN /\ BundlerReachable(proc[i].env)
        /\ OpValid(op)
        /\ mempool' = mempool \cup {op}
        /\ Set(i, [proc[i] EXCEPT
              !.txParams = {tx}, !.hash = OpHash(i), !.sent = @ + 1,
              !.sendCalls = @ + 1, !.netCalls = @ + 1, !.pc = "wait"])
  /\ UNCHANGED <<delegated, txCount, aaNonce, balance, ethBalance, receipts, blockNumber,
                 envFile>>

\* sendTransaction rejects; nothing catches it before main().catch.
FundSendFail(i) ==
  /\ proc[i].pc = "send"
  /\ Fund(i)
  /\ Set(i, Fail([proc[i] EXCEPT !.txParams = {FundTxParams(proc[i].env)},
                                 !.sendCalls = @ + 1, !.netCalls = @ + 1], "submission"))
  /\ UNCHANGED chainVars

\* if (ttkReceipt.status === 'reverted') throw new Error(...)
OnTtkReceipt(q, r) ==
  IF r.status = "reverted" THEN Fail(q, "reverted")
  ELSE [q EXCEPT !.out = @ \cup {"confirmed"}, !.pc = "balancesAfter"]

\* ttkReceipt = await publicClient.waitForTransactionReceipt(...) resolves.
FundWaitReceipt(i) ==
  /\ proc[i].pc = "wait"
  /\ Fund(i)
  /\ RpcReachable(proc[i].env)
  /\ receipts[proc[i].hash].status # "none"
  /\ LET r == receipts[proc[i].hash]
     IN Set(i, OnTtkReceipt([proc[i] EXCEPT !.receipt = r, !.netCalls = @ + 1], r))
  /\ UNCHANGED chainVars

\* No receipt of the token transfer within the 120 s.
FundWaitTimeout(i) ==
  /\ proc[i].pc = "wait"
  /\ Fund(i)
  /\ receipts[proc[i].hash].status = "none"
  /\ Set(i, Fail([proc[i] EXCEPT !.netCalls = @ + 1], "timeout"))
  /\ UNCHANGED chainVars

\* The final reads of the new wallet's balances and the success banner.
FundBalancesAfter(i) ==
  /\ proc[i].pc = "balancesAfter"
  /\ Fund(i)
  /\ RpcReachable(proc[i].env)
  /\ Set(i, Finish([proc[i] EXCEPT
        !.receiver1BalanceAfter = {balance[proc[i].env.ADDRESS2]},
        !.netCalls = @ + 2,
        !.out = @ \cup {"success-report"}]))
  /\ UNCHANGED chainVars

\* ------------------------------------------------- checkSmartAccount
StatusCheck(i) == proc[i].script = "check"

\* The operator runs the status checker; ERC20_TOKEN_ADDRESS may be unset or
\* still hold the placeholder, and PIMLICO_API_KEY may be a key the bundler
\* does not accept.
StartCheck(i) ==
  /\ proc[i].pc = "idle"
  /\ \A j \in Inv : j < i => proc[j].pc = "exit"
  /\ \E t \in {Token, Undefined, Placeholder}, k \in {ValidEnv.PIMLICO_API_KEY, Placeholder} :
       Set(i, [proc[i] EXCEPT !.script = "check", !.pc = "import",
                               !.env = [ValidEnv EXCEPT !.ERC20_TOKEN_ADDRESS = t,
                                                        !.PIMLICO_API_KEY = k]])
  /\ UNCHANGED chainVars

\* Mutant: the checker answers from a stale view in which the account has no code.
StatusDeployedStale(i) ==
  /\ proc[i].pc = "statusDeployed"
  /\ StatusCheck(i)
  /\ Set(i, [proc[i] EXCEPT
        !.isDeployed = {FALSE},
        !.checkedAtBlock = {blockNumber},
        !.netCalls = @ + 1,
        !.pc = "statusEth"])
  /\ UNCHANGED chainVars

\* const isDeployed = await smartAccountClient.account.isDeployed()
StatusDeployed(i) ==
  /\ proc[i].pc = "statusDeployed"
  /\ StatusCheck(i)
  /\ Set(i, [proc[i] EXCEPT
        !.isDeployed = {delegated},
        !.checkedAtBlock = {blockNumber},
        !.netCalls = @ + 1,
        !.pc = "statusEth"])
  /\ UNCHANGED chainVars

\* if (tokenAddress && tokenAddress !== '0x')
TokenConfigured(env) ==
  ~Falsy(env.ERC20_TOKEN_ADDRESS) /\ env.ERC20_TOKEN_ADDRESS # Placeholder

\* The bundler "connection test" sends nothing; then the banner, and main() returns.
StatusComplete(p) == Finish([p EXCEPT !.out = @ \cup {"connection-ok", "complete"}])

\* const ethBalance = await publicClient.getBalance(...); without a configured
\* token the script goes on to its end.
StatusEthBalance(i) ==
  /\ proc[i].pc = "statusEth"
  /\ StatusCheck(i)
  /\ LET p == [proc[i] EXCEPT !.currentEthBalance = {ethBalance[Owner]},
                               !.netCalls = @ + 1]
     IN Set(i, IF TokenConfigured(p.env) THEN [p EXCEPT !.pc = "statusToken"]
               ELSE StatusComplete(p))
  /\ UNCHANGED chainVars

\* The balanceOf read answers.
StatusTokenBalance(i) ==
  /\ proc[i].pc = "statusToken"
  /\ StatusCheck(i)
  /\ Set(i, StatusComplete([proc[i] EXCEPT !.currentTtkBalance = {balance[Owner]},
                                           !.netCalls = @ + 1]))
  /\ UNCHANGED chainVars

\* The balanceOf read fails (the request, or the call on the contract): the
\* catch block prints a warning and the script goes on.
StatusTokenFail(i) ==
  /\ proc[i].pc = "statusToken"
  /\ StatusCheck(i)
  /\ Set(i, StatusComplete([proc[i] EXCEPT !.netCalls = @ + 1, !.failedReads = @ + 1,
                                           !.out = @ \cup {"token-warning"}]))
  /\ UNCHANGED chainVars

\* The deployment check or the ETH balance read fails: main().catch.
StatusTransportFail(i) ==
  /\ proc[i].pc \in {"statusDeployed", "statusEth"}
  /\ StatusCheck(i)
  /\ Set(i, Fail([proc[i] EXCEPT !.netCalls = @ + 1, !.failedReads = @ + 1], "transport"))
  /\ UNCHANGED chainVars

\* ------------------------------------------------------ transport failure
\* The awaits that are JSON-RPC requests through publicClient / walletClient.
NetSteps ==
  {"balancesBefore", "isDeployed", "getNonce", "wait", "isDeployedAfter", "balancesAfter",
   "sendEth", "waitEth"}

\* The steps of a send script that the node or the bundler sees, and the signing.
Visible == {"isDeployed", "getNonce", "sign", "send", "wait"}

\* A request fails: the rejection propagates to main().catch.
TransportFail(i) ==
  /\ proc[i].pc \in NetSteps
  /\ Set(i, Fail([proc[i] EXCEPT
        !.netCalls = @ + 1,
        !.failedReads = @ + 1,
        !.steps = IF Send7702(i) /\ proc[i].pc \in Visible THEN Append(@, proc[i].pc) ELSE @],
        "transport"))
  /\ UNCHANGED chainVars

\* ------------------------------------------------------------- the chain
\* The bundler's transaction carrying one UserOperation is mined: the
\* authorization, if it applies, and the calls take effect together or not at
\* all.  An operation the account cannot validate is dropped by the bundler.
IncludeOp(op) ==
  /\ op \in mempool
  /\ op.kind = "op"
  /\ mempool' = mempool \ {op}
  /\ IF ~OpValid(op)
       THEN UNCHANGED <<delegated, txCount, aaNonce, balance, receipts, blockNumber>>
       ELSE LET r == Execute(balance, op.callData) IN
         /\ blockNumber' = blockNumber + 1
         /\ balance' = r.bal
         /\ IF r.ok
              THEN /\ delegated' = (delegated \/ AuthApplies(op))
                   /\ txCount' = txCount + (IF AuthApplies(op) THEN 1 ELSE 0)
                   /\ aaNonce' = aaNonce + 1
                   /\ receipts' = [receipts EXCEPT ![op.hash] =
                        [status |-> "success", transferEvents |-> r.ev,
                         blockNumber |-> blockNumber + 1]]
              ELSE /\ receipts' = [receipts EXCEPT ![op.hash] =
                        [status |-> "reverted", transferEvents |-> 0,
                         blockNumber |-> blockNumber + 1]]
                   /\ UNCHANGED <<delegated, txCount, aaNonce>>
  /\ UNCHANGED <<proc, ethBalance, envFile>>

\* Mutant: a mined ETH transfer of the owner removes the account's delegation.
IncludeEthRevoking(tx) ==
  /\ tx \in mempool
  /\ tx.kind = "eth"
  /\ mempool' = mempool \ {tx}
  /\ IF ethBalance[Owner] >= tx.value /\ tx.to \in Holders
       THEN /\ blockNumber' = blockNumber + 1
            /\ txCount' = txCount + 1
            /\ \E accepted \in BOOLEAN :
                 IF accepted
                   THEN /\ ethBalance' = [[ethBalance EXCEPT ![Owner] = @ - tx.value]
                                            EXCEPT ![tx.to] = @ + tx.value]
                        /\ receipts' = [receipts EXCEPT ![tx.hash] =
                             [status |-> "success", transferEvents |-> 0,
                              blockNumber |-> blockNumber + 1]]
                   ELSE /\ receipts' = [receipts EXCEPT ![tx.hash] =
                             [status |-> "reverted", transferEvents |-> 0,
                              blockNumber |-> blockNumber + 1]]
                        /\ UNCHANGED ethBalance
       ELSE UNCHANGED <<ethBalance, txCount, receipts, blockNumber>>
  /\ delegated' = FALSE
  /\ UNCHANGED <<proc, aaNonce, balance, envFile>>

\* The owner's plain ETH transfer is mined; the recipient may refuse it, and a
\* transaction the owner cannot pay for is never mined.
IncludeEth(tx) ==
  /\ tx \in mempool
  /\ tx.kind = "eth"
  /\ mempool' = mempool \ {tx}
  /\ IF ethBalance[Owner] >= tx.value /\ tx.to \in Holders
       THEN /\ blockNumber' = blockNumber + 1
            /\ txCount' = txCount + 1
            /\ \E accepted \in BOOLEAN :
                 IF accepted
                   THEN /\ ethBalance' = [[ethBalance EXCEPT ![Owner] = @ - tx.value]
                                            EXCEPT ![tx.to] = @ + tx.value]
                        /\ receipts' = [receipts EXCEPT ![tx.hash] =
                             [status |-> "success", transferEvents |-> 0,
                              blockNumber |-> blockNumber + 1]]
                   ELSE /\ receipts' = [receipts EXCEPT ![tx.hash] =
                             [status |-> "reverted", transferEvents |-> 0,
                              blockNumber |-> blockNumber + 1]]
                        /\ UNCHANGED ethBalance
       ELSE UNCHANGED <<ethBalance, txCount, receipts, blockNumber>>
  /\ UNCHANGED <<proc, delegated, aaNonce, balance, envFile>>

\* ------------------------------------------------------- specification
\* The token and ETH holdings of the EOA before the first run.
InitWorlds ==
  { [ttk |-> 5, eth |-> 1], [ttk |-> 20, eth |-> 1], [ttk |-> 10005, eth |-> 1],
    [ttk |-> 10040, eth |-> 1], [ttk |-> 10040, eth |-> 0] }

\* The EOA is fresh or has sent MaxInitTxCount transactions, and is not delegated.
Init ==
  /\ proc = [i \in Inv |-> InitProc]
  /\ delegated = FALSE
  /\ txCount \in {0, MaxInitTxCount}
  /\ aaNonce = 0
  /\ \E w \in InitWorlds :
       /\ balance = [a \in Holders |-> IF a = Owner THEN w.ttk ELSE 0]
       /\ ethBalance = [a \in Holders |-> IF a = Owner THEN w.eth ELSE 0]
  /\ mempool = {}
  /\ receipts = [h \in Hashes |-> NoReceipt]
  /\ blockNumber = 0
  /\ envFile = DeployedEnvFile

Run(i) ==
  \/ Import(i)
  \/ CheckConfig(i)
  \/ GetSmartAccountClient(i)
  \/ BalancesBefore(i)
  \/ CheckDeployed(i)
  \/ ReadNonce(i)
  \/ SignAuthorization(i)
  \/ Encode(i)
  \/ SendOk(i)
  \/ SendFail(i)
  \/ WaitReceipt(i)
  \/ WaitTimeout(i)
  \/ CheckDeployedAfter(i)
  \/ BalancesAfter(i)
  \/ FundBalancesBefore(i)
  \/ SendEth(i)
  \/ WaitEthReceipt(i)
  \/ WaitEthTimeout(i)
  \/ FundSendOk(i)
  \/ FundSendFail(i)
  \/ FundWaitReceipt(i)
  \/ FundWaitTimeout(i)
  \/ FundBalancesAfter(i)
  \/ TransportFail(i)

Chain ==
  \/ \E op \in mempool : IncludeOp(op)
  \/ \E tx \in mempool : IncludeEth(tx)

Next == (\E i \in Inv : Start(i) \/ Run(i)) \/ Chain

Spec == Init /\ [][Next]_vars

\* A later run with a complete .env.
StartLater(i) == i > 1 /\ Start(i)

\* Runs of which the first has any .env of EnvChoices.
NextConfig == StartAnyEnv \/ (\E i \in Inv : StartLater(i) \/ Run(i)) \/ Chain

SpecConfig == Init /\ [][NextConfig]_vars

\* -------------------------------------------- the batch scenario on its own
\* Token holdings of the account (at least amount1 + amount2) and of a recipient
\* before the run.
ScenarioHoldings == {30, 31, 50}
ScenarioReceiverHoldings == {0, 7}

\* A not-yet-deployed account and two distinct recipients.
InitScenario ==
  /\ proc = [i \in Inv |-> InitProc]
  /\ delegated = FALSE
  /\ txCount \in 0..MaxInitTxCount
  /\ aaNonce = 0
  /\ \E h \in ScenarioHoldings, r1, r2 \in ScenarioReceiverHoldings :
       balance = [a \in Holders |->
                   IF a = Owner THEN h ELSE IF a = Receiver1 THEN r1
                   ELSE IF a = Receiver2 THEN r2 ELSE 0]
  /\ ethBalance = [a \in Holders |-> IF a = Owner THEN 1 ELSE 0]
  /\ mempool = {}
  /\ receipts = [h \in Hashes |-> NoReceipt]
  /\ blockNumber = 0
  /\ envFile = DeployedEnvFile

\* One run of the batch script with a complete .env.
StartBatch ==
  /\ proc[1].pc = "idle"
  /\ Set(1, [proc[1] EXCEPT !.script = "batch", !.env = ValidEnv, !.pc = "import"])
  /\ UNCHANGED chainVars

\* The steps of the single-transfer and batch scripts.
Run7702(i) ==
  \/ Import(i)
  \/ CheckConfig(i)
  \/ GetSmartAccountClient(i)
  \/ BalancesBefore(i)
  \/ CheckDeployed(i)
  \/ ReadNonce(i)
  \/ SignAuthorization(i)
  \/ Encode(i)
  \/ SendOk(i)
  \/ SendFail(i)
  \/ WaitReceipt(i)
  \/ WaitTimeout(i)
  \/ CheckDeployedAfter(i)
  \/ BalancesAfter(i)
  \/ TransportFail(i)

NextScenario == StartBatch \/ Run7702(1) \/ (\E op \in mempool : IncludeOp(op))

SpecScenario == InitScenario /\ [][NextScenario]_vars

\* ------------------------------------------------- the encoding on its own
MaxCalls == 3          \* call descriptors in one list

\* Call descriptors that differ in destination, value and data.
SomeCalls ==
  { Call(Token, 0, TransferData(Receiver1, amount1)),
    Call(Token, 0, TransferData(Receiver2, amount2)),
    Call(Token, 0, TransferData(Receiver1, amount2)),
    Call(Receiver1, 1, <<>>),
    Call(NewWallet, 0, <<Selector("execute"), UintWord(1)>>) }

RECURSIVE CallLists(_)
CallLists(n) ==
  IF n = 0 THEN {<<>>}
  ELSE LET shorter == CallLists(n - 1)
       IN shorter \cup {<<c>> \o cs : c \in SomeCalls, cs \in {l \in shorter : Len(l) = n - 1}}

\* The batch script in front of encodeCalls, with any list of up to MaxCalls calls.
InitEncode ==
  /\ \E cs \in CallLists(MaxCalls) :
       proc = [i \in Inv |->
                IF i = 1 THEN [InitProc EXCEPT !.script = "batch", !.pc = "encode", !.calls = cs]
                ELSE InitProc]
  /\ delegated = FALSE
  /\ txCount = 0
  /\ aaNonce = 0
  /\ balance = [a \in Holders |-> 0]
  /\ ethBalance = [a \in Holders |-> 0]
  /\ mempool = {}
  /\ receipts = [h \in Hashes |-> NoReceipt]
  /\ blockNumber = 0
  /\ envFile = DeployedEnvFile

NextEncode == Encode(1)

SpecEncode == InitEncode /\ [][NextEncode]_vars

\* ------------------------------------------------------ runs that go on
\* A step of run i other than a failing request: the script is a sequence of
\* awaits, and each await resolves or rejects.
Step(i) ==
  \/ Import(i)
  \/ CheckConfig(i)
  \/ GetSmartAccountClient(i)
  \/ BalancesBefore(i)
  \/ CheckDeployed(i)
  \/ ReadNonce(i)
  \/ SignAuthorization(i)
  \/ Encode(i)
  \/ SendOk(i)
  \/ SendFail(i)
  \/ WaitReceipt(i)
  \/ WaitTimeout(i)
  \/ CheckDeployedAfter(i)
  \/ BalancesAfter(i)
  \/ FundBalancesBefore(i)
  \/ SendEth(i)
  \/ WaitEthReceipt(i)
  \/ WaitEthTimeout(i)
  \/ FundSendOk(i)
  \/ FundSendFail(i)
  \/ FundWaitReceipt(i)
  \/ FundWaitTimeout(i)
  \/ FundBalancesAfter(i)

\* Init with a fresh EOA that holds enough for every script.
InitLive ==
  /\ Init
  /\ txCount = 0
  /\ balance[Owner] = 10040
  /\ ethBalance[Owner] = 1

\* The event loop runs a started script on; the chain is under no obligation.
SpecLive == InitLive /\ [][Next]_vars /\ \A i \in Inv : WF_vars(Step(i))

\* ------------------------------------- the scripts and the status checker
RunCheck(i) ==
  \/ StatusDeployed(i)
  \/ StatusEthBalance(i)
  \/ StatusTokenBalance(i)
  \/ StatusTokenFail(i)
  \/ StatusTransportFail(i)

NextAll == (\E i \in Inv : Start(i) \/ StartCheck(i) \/ Run(i) \/ RunCheck(i)) \/ Chain

SpecAll == InitLive /\ [][NextAll]_vars

\* ------------------------------------------------------------ deployToken
Deploy(i) == proc[i].script = "deploy"

\* The supply the TestToken constructor gives to the deployer, in whole
\* tokens.  The contract is compiled from contracts/TestToken.sol; the figure
\* stands for any supply that covers ttkToSend and the transfers of a batch.
TokenSupply == 10040

\* The operator runs deployToken; dotenv reads the .env file as it is.
StartDeploy ==
  /\ proc[1].pc = "idle"
  /\ Set(1, [proc[1] EXCEPT !.script = "deploy", !.env = EnvFrom(envFile),
                            !.pc = "deployConfig"])
  /\ UNCHANGED chainVars

\* if (!PRIVATE_KEY || !SEPOLIA_RPC_URL) process.exit(1)
DeployConfig(i) ==
  /\ proc[i].pc = "deployConfig"
  /\ Set(i, IF Falsy(proc[i].env.PRIVATE_KEY) \/ Falsy(proc[i].env.SEPOLIA_RPC_URL)
              THEN Fail(proc[i], "config")
              ELSE [proc[i] EXCEPT !.pc = "compile"])
  /\ UNCHANGED chainVars

\* compileContract(): solc reports errors, or gives the ABI and the bytecode.
CompileContract(i) ==
  /\ proc[i].pc = "compile"
  /\ \E ok \in BOOLEAN :
       Set(i, IF ok THEN [proc[i] EXCEPT !.steps = Append(@, "compile"), !.pc = "deployBalance"]
              ELSE Fail(proc[i], "compile"))
  /\ UNCHANGED chainVars

\* const balance = await publicClient.getBalance(...); a low balance only warns.
DeployerBalance(i) ==
  /\ proc[i].pc = "deployBalance"
  /\ Set(i, [proc[i] EXCEPT !.currentEthBalance = {ethBalance[Owner]},
                            !.netCalls = @ + 1, !.pc = "deploy"])
  /\ UNCHANGED chainVars

\* The contract creation transaction of the deployer.
DeployTransaction(h) ==
  [hash |-> h, kind |-> "deploy", to |-> "", value |-> 0, callData |-> <<>>, auth |-> {}]

\* const hash = await walletClient.deployContract({abi, bytecode, args: []})
SendDeploy(i) ==
  /\ proc[i].pc = "deploy"
  /\ mempool' = mempool \cup {DeployTransaction(DeployHash(i))}
  /\ Set(i, [proc[i] EXCEPT !.hash = DeployHash(i), !.sent = @ + 1, !.sendCalls = @ + 1,
                            !.steps = Append(@, "deploy"),
                            !.netCalls = @ + 1, !.pc = "waitDeploy"])
  /\ UNCHANGED <<delegated, txCount, aaNonce, balance, ethBalance, receipts, blockNumber,
                 envFile>>

\* Mutant: the status of the deployment receipt is not looked at.
WaitDeployReceiptAnyStatus(i) ==
  /\ proc[i].pc = "waitDeploy"
  /\ receipts[proc[i].hash].status # "none"
  /\ LET r == receipts[proc[i].hash]
     IN Set(i, [proc[i] EXCEPT !.receipt = r, !.netCalls = @ + 1, !.pc = "verify"])
  /\ UNCHANGED chainVars

\* receipt = await publicClient.waitForTransactionReceipt({hash}); a reverted
\* receipt ends the run with process.exit(1).
WaitDeployReceipt(i) ==
  /\ proc[i].pc = "waitDeploy"
  /\ receipts[proc[i].hash].status # "none"
  /\ LET r == receipts[proc[i].hash]
         q == [proc[i] EXCEPT !.receipt = r, !.netCalls = @ + 1]
     IN Set(i, IF r.status = "reverted" THEN Fail(q, "reverted")
               ELSE [q EXCEPT !.pc = "verify"])
  /\ UNCHANGED chainVars

\* No receipt within viem's default timeout: the rejection reaches the catch
\* block of main().
WaitDeployTimeout(i) ==
  /\ proc[i].pc = "waitDeploy"
  /\ receipts[proc[i].hash].status = "none"
  /\ Set(i, Fail([proc[i] EXCEPT !.netCalls = @ + 1], "timeout"))
  /\ UNCHANGED chainVars

\* verifyDeployment(): name, symbol, totalSupply, balanceOf(deployer).
VerifyDeployment(i) ==
  /\ proc[i].pc = "verify"
  /\ Set(i, [proc[i] EXCEPT !.currentTtkBalance = {balance[Owner]},
                            !.steps = Append(@, "verify"),
                            !.netCalls = @ + 4, !.pc = "updateEnv"])
  /\ UNCHANGED chainVars

\* updateEnvFile(contractAddress), the closing banner, and main() returns.
UpdateEnvFile(i) ==
  /\ proc[i].pc = "updateEnv"
  /\ envFile' = UpdateEnvContent(envFile, Token)
  /\ Set(i, Finish([proc[i] EXCEPT !.steps = Append(@, "updateEnv"),
                                   !.out = @ \cup {"env-updated"}]))
  /\ UNCHANGED <<delegated, txCount, aaNonce, balance, ethBalance, mempool, receipts,
                 blockNumber>>

\* A request of deployToken fails: catch (error) { ...; process.exit(1) }.
DeployTransportFail(i) ==
  /\ proc[i].pc \in {"deployBalance", "deploy", "waitDeploy", "verify"}
  /\ Set(i, Fail([proc[i] EXCEPT !.netCalls = @ + 1, !.failedReads = @ + 1], "transport"))
  /\ UNCHANGED chainVars

\* The contract creation is mined: the constructor gives the supply to the
\* deployer, or the creation runs out of gas and is reverted.
IncludeDeploy(tx) ==
  /\ tx \in mempool
  /\ tx.kind = "deploy"
  /\ mempool' = mempool \ {tx}
  /\ blockNumber' = blockNumber + 1
  /\ txCount' = txCount + 1
  /\ \E created \in BOOLEAN :
       IF created
         THEN /\ balance' = [balance EXCEPT ![Owner] = @ + TokenSupply]
              /\ receipts' = [receipts EXCEPT ![tx.hash] =
                   [status |-> "success", transferEvents |-> 1,
                    blockNumber |-> blockNumber + 1]]
         ELSE /\ receipts' = [receipts EXCEPT ![tx.hash] =
                   [status |-> "reverted", transferEvents |-> 0,
                    blockNumber |-> blockNumber + 1]]
              /\ UNCHANGED balance
  /\ UNCHANGED <<proc, delegated, aaNonce, ethBalance, envFile>>

RunDeploy(i) ==
  \/ DeployConfig(i)
  \/ CompileContract(i)
  \/ DeployerBalance(i)
  \/ SendDeploy(i)
  \/ WaitDeployReceipt(i)
  \/ WaitDeployTimeout(i)
  \/ VerifyDeployment(i)
  \/ UpdateEnvFile(i)
  \/ DeployTransportFail(i)

\* A script started while or after deployToken runs: dotenv reads the .env
\* file as it is at that moment.
StartFromEnvFile(i) ==
  /\ i > 1
  /\ proc[i].pc = "idle"
  /\ \A j \in Inv : (1 < j /\ j < i) => proc[j].pc = "exit"
  /\ \E sc \in Scripts :
       Set(i, [proc[i] EXCEPT !.script = sc, !.env = EnvFrom(envFile), !.pc = "import"])
  /\ UNCHANGED chainVars

\* A project directory before the first deployment: the key is absent from
\* .env, or still holds the placeholder; the EOA holds ETH and no token exists.
InitDeploy ==
  /\ proc = [i \in Inv |-> InitProc]
  /\ delegated \in BOOLEAN
  /\ txCount = 0
  /\ aaNonce = 0
  /\ balance = [a \in Holders |-> 0]
  /\ ethBalance = [a \in Holders |-> IF a = Owner THEN 1 ELSE 0]
  /\ mempool = {}
  /\ receipts = [h \in Hashes \cup DeployHashes |-> NoReceipt]
  /\ blockNumber = 0
  /\ envFile \in {<<>>, <<EnvLine("ERC20_TOKEN_ADDRESS", Placeholder)>>}

NextDeploy ==
  \/ StartDeploy
  \/ \E i \in Inv : StartFromEnvFile(i) \/ Run(i) \/ RunDeploy(i)
  \/ Chain
  \/ \E tx \in mempool : IncludeDeploy(tx)

SpecDeploy == InitDeploy /\ [][NextDeploy]_vars

\* -------------------------------------------------- the clients module
\* An account instance and a client instance, told apart by their order of
\* construction.
AccountInstance(n) == [kind |-> "account", id |-> n, account |-> 0]
ClientInstance(n, account) == [kind |-> "client", id |-> n, account |-> account.id]

\* getSimple7702Account() up to its first await: the cached instance, or a
\* call of to7702SimpleSmartAccount whose result is awaited.
EnterAccount(p, c, fn) ==
  IF p._simple7702Account # {}
    THEN [p EXCEPT !.callers[c] =
            [fn |-> fn, pc |-> "resolved", account |-> p._simple7702Account, result |-> {}]]
    ELSE [p EXCEPT !.accountsMade = @ + 1,
                   !.callers[c] = [fn |-> fn, pc |-> "constructing",
                                   account |-> {AccountInstance(p.accountsMade + 1)},
                                   result |-> {}]]

\* Code of the process calls getSimple7702Account().
CallAccount(i, c) ==
  /\ proc[i].pc = "clients"
  /\ proc[i].callers[c].pc = "idle"
  /\ Set(i, EnterAccount(proc[i], c, "account"))
  /\ UNCHANGED chainVars

\* Code of the process calls getSmartAccountClient(): the cached client, or
\* const account = await getSimple7702Account().
CallClient(i, c) ==
  /\ proc[i].pc = "clients"
  /\ proc[i].callers[c].pc = "idle"
  /\ Set(i, IF proc[i]._smartAccountClient # {}
              THEN [proc[i] EXCEPT !.callers[c] =
                      [fn |-> "client", pc |-> "done", account |-> {},
                       result |-> proc[i]._smartAccountClient]]
              ELSE EnterAccount(proc[i], c, "client"))
  /\ UNCHANGED chainVars

\* to7702SimpleSmartAccount resolves: _simple7702Account = <the new instance>,
\* and getSimple7702Account returns it.
AssignAccount(i, c) ==
  /\ proc[i].callers[c].pc = "constructing"
  /\ Set(i, [proc[i] EXCEPT
        !._simple7702Account = proc[i].callers[c].account,
        !.callers[c].pc = "resolved"])
  /\ UNCHANGED chainVars

\* The promise of getSimple7702Account() is settled: its caller has the
\* account; getSmartAccountClient goes on to createSmartAccountClient and
\* assigns _smartAccountClient.
Resolve(i, c) ==
  /\ proc[i].callers[c].pc = "resolved"
  /\ LET p == proc[i]
         k == p.callers[c]
     IN Set(i, IF k.fn = "account"
                 THEN [p EXCEPT !.callers[c].pc = "done", !.callers[c].result = k.account]
                 ELSE LET client == {ClientInstance(p.clientsMade + 1, The(k.account))}
                      IN [p EXCEPT !.clientsMade = @ + 1,
                                   !._smartAccountClient = client,
                                   !.callers[c].pc = "done",
                                   !.callers[c].result = client])
  /\ UNCHANGED chainVars

\* A process that has imported the clients module.
StartClients(i) ==
  /\ proc[i].pc = "idle"
  /\ \A j \in Inv : j < i => \A c \in Callers : proc[j].callers[c].pc = "done"
  /\ Set(i, [proc[i] EXCEPT !.script = "clients", !.pc = "clients"])
  /\ UNCHANGED chainVars

NextClients ==
  \E i \in Inv :
    \/ StartClients(i)
    \/ \E c \in Callers : CallAccount(i, c) \/ CallClient(i, c) \/ AssignAccount(i, c)
                            \/ Resolve(i, c)

\* The state of a process that has loaded the clients module: both cache
\* variables are null, no getter has been called and nothing has been built.
ClientsProc ==
  [script |-> "none", pc |-> "idle",
   _simple7702Account |-> {}, _smartAccountClient |-> {},
   accountsMade |-> 0, clientsMade |-> 0, callers |-> [c \in Callers |-> IdleCaller]]

\* One chain state: the getters of the clients module send no request.
InitClients ==
  /\ proc = [i \in Inv |-> ClientsProc]
  /\ delegated = FALSE
  /\ txCount = 0
  /\ aaNonce = 0
  /\ balance = [a \in Holders |-> 0]
  /\ ethBalance = [a \in Holders |-> 0]
  /\ mempool = {}
  /\ receipts = [h \in Hashes |-> NoReceipt]
  /\ blockNumber = 0
  /\ envFile = DeployedEnvFile

SpecClients == InitClients /\ [][NextClients]_vars

\* ------------------------------------- a confirmed receipt without the event
\* The bundler's transaction is mined with status success although the calls of
\* the operation fail inside it: the EntryPoint records the failure and goes
\* on.  The authorization, if it applies, is in force, no token moves, and the
\* receipt's logs hold no Transfer event of the token.  This is the receipt the
\* scripts' "Transfer event not found" branch is written for.
IncludeOpCallFails(op) ==
  /\ op \in mempool
  /\ op.kind = "op"
  /\ OpValid(op)
  /\ ~Execute(balance, op.callData).ok
  /\ mempool' = mempool \ {op}
  /\ blockNumber' = blockNumber + 1
  /\ delegated' = (delegated \/ AuthApplies(op))
  /\ txCount' = txCount + (IF AuthApplies(op) THEN 1 ELSE 0)
  /\ aaNonce' = aaNonce + 1
  /\ receipts' = [receipts EXCEPT ![op.hash] =
       [status |-> "success", transferEvents |-> 0, blockNumber |-> blockNumber + 1]]
  /\ UNCHANGED <<proc, balance, ethBalance, envFile>>

NextReport == Next \/ (\E op \in mempool : IncludeOpCallFails(op))

SpecReport == Init /\ [][NextReport]_vars

\* ------------------------------------------------ updateEnvFile on its own
MaxLines == 2          \* lines of a .env file

\* The keys of the lines of a .env file: the token address, a key that ends in
\* its name, and a key that has nothing to do with it.
EnvFileKeys == {"ERC20_TOKEN_ADDRESS", "OLD_ERC20_TOKEN_ADDRESS", "RECEIVER_ADDRESS"}

\* The .env files of up to MaxLines lines.
EnvFiles ==
  UNION { [1..n -> {EnvLine(k, v) : k \in EnvFileKeys, v \in {Placeholder, Token}}] :
          n \in 0..MaxLines }

\* A process that is about to call updateEnvFile: envContent is what
\* fs.readFileSync returned, written what was handed to fs.writeFileSync.
EnvFileProc == [script |-> "none", pc |-> "idle", envContent |-> <<>>, written |-> <<>>]

\* updateEnvFile(contractAddress): read .env, rewrite or append, write it back.
CallUpdateEnvFile(i) ==
  /\ proc[i].pc = "idle"
  /\ \A j \in Inv : j < i => proc[j].pc = "exit"
  /\ envFile' = UpdateEnvContent(envFile, Token)
  /\ Set(i, [proc[i] EXCEPT !.script = "deploy", !.pc = "exit", !.envContent = envFile,
                            !.written = UpdateEnvContent(envFile, Token)])
  /\ UNCHANGED <<delegated, txCount, aaNonce, balance, ethBalance, mempool, receipts,
                 blockNumber>>

\* Any .env file of EnvFiles; the chain plays no part.
InitEnvFile ==
  /\ proc = [i \in Inv |-> EnvFileProc]
  /\ delegated = FALSE
  /\ txCount = 0
  /\ aaNonce = 0
  /\ balance = [a \in Holders |-> 0]
  /\ ethBalance = [a \in Holders |-> 0]
  /\ mempool = {}
  /\ receipts = [h \in Hashes |-> NoReceipt]
  /\ blockNumber = 0
  /\ envFile \in EnvFiles

NextEnvFile == \E i \in Inv : CallUpdateEnvFile(i)

SpecEnvFile == InitEnvFile /\ [][NextEnvFile]_vars

\* ================================================================ claims
\* The parameters invocation i handed to sendTransaction hold an authorization.
Carried(i) == proc[i].txParams # {} /\ "authorization" \in DOMAIN The(proc[i].txParams)

\* C1: in every run of the single-transfer and of the batch script, the
\* parameters handed to sendTransaction hold a signed authorization when
\* isDeployed() answered false, and no authorization field when it answered true.
C1_AuthorizationPresence ==
  \A i \in Inv : (Send7702(i) /\ proc[i].txParams # {}) =>
    /\ proc[i].isDeployed = {FALSE} =>
         (Carried(i) /\ The(proc[i].txParams).authorization.signer = Owner)
    /\ proc[i].isDeployed = {TRUE} => ~Carried(i)

\* C1 witness: one run submitted with an authorization after seeing the account
\* undeployed, a later run submitted without one after seeing it deployed.
C1_Witness ==
  \E i, j \in Inv :
    /\ Send7702(i) /\ proc[i].isDeployed = {FALSE} /\ proc[i].hash # NoHash /\ Carried(i)
    /\ Send7702(j) /\ proc[j].isDeployed = {TRUE} /\ proc[j].hash # NoHash /\ ~Carried(j)

\* C2: the nonce of every signed authorization equals the EOA's
\* transaction count at the moment of signing, also when a transaction of the
\* signer is mined between the nonce read and the signing.
C2_NonceAtSigning ==
  \A i \in Inv : proc[i].authorization # {} =>
    The(proc[i].authorization).nonce = The(proc[i].txCountAtSign)

\* What does hold of the nonce: it is the EOA's transaction count as it was when
\* getTransactionCount(owner.address) was answered, the read that precedes the
\* signing, and so never more than the count at the moment of signing.
NonceFromEoaRead ==
  \A i \in Inv : proc[i].authorization # {} =>
    /\ proc[i].nonce = proc[i].txCountAtRead
    /\ The(proc[i].authorization).nonce = The(proc[i].txCountAtRead)
    /\ The(proc[i].authorization).nonce <= The(proc[i].txCountAtSign)

\* C2 witness: an authorization was signed after a transaction of the signer
\* was mined between the nonce read and the signing, and was handed to
\* sendTransaction.
C2_Witness ==
  \E i \in Inv :
    /\ Carried(i)
    /\ The(proc[i].txCountAtSign) > The(proc[i].txCountAtRead)

\* The runs whose UserOperation was mined with status success.
Landed == {i \in Inv : receipts[OpHash(i)].status = "success"}

\* Run i's UserOperation is the first that was mined with status success.
First(i) ==
  /\ i \in Landed
  /\ \A j \in Landed : receipts[OpHash(i)].blockNumber <= receipts[OpHash(j)].blockNumber

C4_BatchScenario ==
  LET p == proc[1] IN
  /\ Exited(1) =>
       \/ /\ p.exitCode = {0}
          /\ The(p.senderBalanceAfter) = The(p.senderBalanceBefore) - 30
          /\ The(p.receiver1BalanceAfter) = The(p.receiver1BalanceBefore) + 10
          /\ The(p.receiver2BalanceAfter) = The(p.receiver2BalanceBefore) + 20
          /\ Carried(1)
          /\ p.authorization = {The(p.txParams).authorization}
          /\ p.sent = 1
          /\ p.hash = OpHash(1)
          /\ p.receipt.status = "success"
          /\ "success-report" \in p.out
       \/ /\ p.exitCode = {1}
          /\ p.error \in {"transport", "submission", "timeout"}
  /\ receipts[OpHash(1)].status # "reverted"
  /\ receipts[OpHash(1)].status = "success" =>
       /\ balance[Owner] = The(p.senderBalanceBefore) - 30
       /\ balance[Receiver1] = The(p.receiver1BalanceBefore) + 10
       /\ balance[Receiver2] = The(p.receiver2BalanceBefore) + 20
       /\ delegated

\* C4 witness: the run ended with exit code 0 on an account that held exactly 30.
C4_Witness ==
  /\ Exited(1)
  /\ proc[1].exitCode = {0}
  /\ proc[1].senderBalanceBefore = {30}
  /\ proc[1].senderBalanceAfter = {0}
  /\ proc[1].receiver2BalanceAfter = {27}

\* The runs of script s whose UserOperation was mined with status success.
Succeeded(s) == {i \in Landed : proc[i].script = s}

C6_OrderPreserved ==
  \A i \in Inv : (proc[i].script = "batch" /\ proc[i].pc = "send") =>
    DecodeCalls(proc[i].batchCallData) = proc[i].calls

\* C6 witness: a list of MaxCalls different calls has been encoded.
C6_Witness ==
  /\ proc[1].pc = "send"
  /\ Len(proc[1].calls) = MaxCalls
  /\ \A j, k \in 1..MaxCalls : j # k => proc[1].calls[j] # proc[1].calls[k]
  /\ proc[1].batchCallData # <<>>

\* Run i was started with a required environment value absent or '0x'.
Misconfigured(i) ==
  /\ proc[i].script # "none"
  /\ \E k \in Required(proc[i].script) : proc[i].env[k] \in {Undefined, Placeholder}

\* C8: a run started with a required environment value absent or '0x' issues no
\* network request and, once it has ended, has ended with a configuration error.
C8_ConfigBeforeIO ==
  \A i \in Inv : Misconfigured(i) =>
    /\ proc[i].netCalls = 0
    /\ Exited(i) => (proc[i].exitCode = {1} /\ proc[i].error = "config")

\* C8 witness: a run with PIMLICO_API_KEY = '0x' has read the chain and has
\* ended at the submission, with an error that is no configuration error.
C8_Witness ==
  \E i \in Inv :
    /\ proc[i].env.PIMLICO_API_KEY = Placeholder
    /\ proc[i].netCalls > 0
    /\ Exited(i)
    /\ proc[i].error = "submission"

\* What does hold of the start-up: a run started with a required environment
\* value absent issues no network request and ends with a configuration error.
AbsentValueFailsBeforeIO ==
  \A i \in Inv :
    (proc[i].script # "none" /\ \E k \in Required(proc[i].script) : proc[i].env[k] = Undefined) =>
      /\ proc[i].netCalls = 0
      /\ Exited(i) => (proc[i].exitCode = {1} /\ proc[i].error = "config")

\* C9: a run that has read a receipt with status reverted has ended with exit
\* code 1, has printed no success report, has read no balance after the
\* transaction and has submitted nothing after it.
C9_RevertedIsTerminal ==
  \A i \in Inv :
    /\ proc[i].receipt.status = "reverted" =>
         /\ Exited(i)
         /\ proc[i].exitCode = {1}
         /\ "success-report" \notin proc[i].out
         /\ proc[i].senderBalanceAfter = {}
         /\ proc[i].receiver1BalanceAfter = {}
         /\ proc[i].receiver2BalanceAfter = {}
         /\ proc[i].isDeployedAfter = {}
         /\ proc[i].sent = (IF Fund(i) THEN 2 ELSE 1)
    /\ proc[i].ethReceipt.status = "reverted" =>
         /\ Exited(i)
         /\ proc[i].exitCode = {1}
         /\ "success-report" \notin proc[i].out
         /\ proc[i].receiver1BalanceAfter = {}
         /\ proc[i].hash = NoHash
         /\ proc[i].sent = 1

\* C9 witness: a run has read the reverted receipt of its UserOperation and
\* has ended.
C9_Witness ==
  \E i \in Inv :
    /\ proc[i].hash # NoHash
    /\ proc[i].receipt.status = "reverted"
    /\ Exited(i)

\* C10: a run that waits for a receipt leaves the wait, with the receipt or with
\* the timeout, and ends.
C10_WaitEnds ==
  \A i \in Inv : (proc[i].pc \in {"wait", "waitEth"}) ~> (proc[i].pc = "exit")

\* C10 witness: a run whose operation was never mined has ended with the timeout.
C10_Witness ==
  \E i \in Inv :
    /\ Exited(i)
    /\ proc[i].error = "timeout"
    /\ proc[i].hash # NoHash
    /\ receipts[proc[i].hash].status = "none"

\* The receipt run i was waiting for when it last waited.
AwaitedReceipt(i) == IF proc[i].hash # NoHash THEN proc[i].receipt ELSE proc[i].ethReceipt

\* C11: a run ends with the timeout error only without having read a receipt,
\* with exit code 1, the diagnostic and no success report; it ends with the
\* reverted error exactly when it has read a reverted receipt, so the two are
\* told apart.  (That the transaction can still be mined afterwards is the
\* witness.)
C11_TimeoutIsNotReverted ==
  \A i \in Inv : Exited(i) =>
    /\ proc[i].error = "timeout" =>
         /\ proc[i].exitCode = {1}
         /\ "diagnostic" \in proc[i].out
         /\ "success-report" \notin proc[i].out
         /\ proc[i].sent >= 1
         /\ AwaitedReceipt(i).status = "none"
    /\ proc[i].error = "reverted" <=>
         (proc[i].receipt.status = "reverted" \/ proc[i].ethReceipt.status = "reverted")

\* C11 witness: a run ended with the timeout error and its operation was mined
\* with status success afterwards.
C11_Witness ==
  \E i \in Inv :
    /\ Exited(i)
    /\ proc[i].error = "timeout"
    /\ proc[i].hash # NoHash
    /\ proc[i].receipt.status = "none"
    /\ receipts[proc[i].hash].status = "success"

\* C12: a run calls sendTransaction for its token operation at most once; a run
\* that has failed has ended, and if it failed before or in the submission no
\* operation of it exists, in the mempool or mined.
C12_NoResubmission ==
  \A i \in Inv :
    /\ proc[i].sendCalls <= 1
    /\ proc[i].sent <= proc[i].sendCalls + (IF Fund(i) THEN 1 ELSE 0)
    /\ proc[i].error # "" => (Exited(i) /\ proc[i].exitCode = {1})
    /\ (proc[i].error # "" /\ proc[i].hash = NoHash) =>
         /\ receipts[OpHash(i)].status = "none"
         /\ \A op \in mempool : op.hash # OpHash(i)

\* C12 witness: a run of a send script ended in a rejected submission, having
\* called sendTransaction once.
C12_Witness ==
  \E i \in Inv :
    /\ Send7702(i)
    /\ Exited(i)
    /\ proc[i].error = "submission"
    /\ proc[i].sendCalls = 1
    /\ proc[i].sent = 0

\* s is an initial segment of t.
IsPrefix(s, t) == Len(s) <= Len(t) /\ \A k \in 1..Len(s) : s[k] = t[k]

\* The number of entries of s equal to x.
Count(s, x) == Cardinality({k \in 1..Len(s) : s[k] = x})

\* The order of the steps of a send script, by the answer of the deployment check.
StepOrder(deployed) ==
  IF deployed THEN <<"isDeployed", "send", "wait">>
  ELSE <<"isDeployed", "getNonce", "sign", "send", "wait">>

\* C15: the steps a run of a send script has taken are an initial segment of
\* deployment check, nonce read, signing, submission, wait when the check
\* answered not deployed, and of deployment check, submission, wait when it
\* answered deployed; so no nonce read or signing follows a submission.
C15_StepOrder ==
  \A i \in Inv : Send7702(i) =>
    /\ proc[i].isDeployed = {} => IsPrefix(proc[i].steps, <<"isDeployed">>)
    /\ \A d \in proc[i].isDeployed : IsPrefix(proc[i].steps, StepOrder(d))
    /\ proc[i].pc \in {"getNonce", "sign"} => proc[i].sendCalls = 0

\* C15 witness: one run went through all five steps, in this order.
C15_Witness ==
  \E i \in Inv :
    /\ Send7702(i)
    /\ proc[i].steps = StepOrder(FALSE)
    /\ proc[i].receipt.status # "none"

\* C16: a run holds an authorization only after its check answered not
\* deployed, and has signed at most once; the parameters of a submission carry
\* an authorization only in a send script and then the one this run signed; an
\* operation in the mempool with an authorization is the operation of the run
\* that signed it; the funding script never carries one.
C16_AuthorizationUse ==
  /\ \A i \in Inv :
       /\ Count(proc[i].steps, "sign") <= 1
       /\ proc[i].authorization # {} =>
            (Send7702(i) /\ proc[i].isDeployed = {FALSE} /\ Count(proc[i].steps, "sign") = 1)
       /\ Carried(i) =>
            /\ Send7702(i)
            /\ proc[i].authorization = {The(proc[i].txParams).authorization}
            /\ proc[i].sendCalls = 1
  /\ \A op \in mempool : (op.kind = "op" /\ op.auth # {}) =>
       \E i \in Inv : op.hash = OpHash(i) /\ proc[i].authorization = op.auth

\* C16 witness: a run signed one authorization and its one submission, which
\* carried it, was mined; a later run of the funding script submitted without.
C16_Witness ==
  \E i, j \in Inv :
    /\ i < j
    /\ Carried(i)
    /\ proc[i].sendCalls = 1
    /\ receipts[OpHash(i)].status = "success"
    /\ Fund(j)
    /\ proc[j].sendCalls = 1
    /\ ~Carried(j)

\* The answers of the deployment checks run i has made.
Checks(i) == proc[i].isDeployed \cup proc[i].isDeployedAfter

C13_ReadFailureAborts ==
  \A i \in Inv : proc[i].failedReads > 0 =>
    /\ Exited(i)
    /\ proc[i].exitCode = {1}
    /\ "complete" \notin proc[i].out

\* The status checker printed its completion banner and exited with code 0
\* although its token-balance read had failed.
C13_Witness ==
  \E i \in Inv :
    /\ StatusCheck(i)
    /\ Exited(i)
    /\ proc[i].failedReads = 1
    /\ "token-warning" \in proc[i].out
    /\ "complete" \in proc[i].out
    /\ proc[i].exitCode = {0}

\* In the scripts that submit, and in the checker's reads other than the token
\* balance, a failed read ends the run with exit code 1.
ReadFailureAbortsElsewhere ==
  \A i \in Inv : (proc[i].failedReads > 0 /\ "token-warning" \notin proc[i].out) =>
    (Exited(i) /\ proc[i].exitCode = {1} /\ proc[i].error = "transport"
       /\ "complete" \notin proc[i].out /\ "success-report" \notin proc[i].out)

\* Every step of run i succeeded.
EveryStepSucceeded(i) == proc[i].error = "" /\ proc[i].failedReads = 0

\* C14 as stated: a run that has ended has exit code 0 only if every step
\* succeeded, and a run with an error has exit code 1 and has printed the
\* diagnostic.
C14_ExitContract ==
  \A i \in Inv : Exited(i) =>
    /\ proc[i].exitCode = {0} => EveryStepSucceeded(i)
    /\ proc[i].error # "" => (proc[i].exitCode = {1} /\ "diagnostic" \in proc[i].out)

\* A run ended with exit code 0 and without diagnostic although one of its
\* reads had failed.
C14_Witness ==
  \E i \in Inv :
    /\ Exited(i)
    /\ proc[i].exitCode = {0}
    /\ "diagnostic" \notin proc[i].out
    /\ ~EveryStepSucceeded(i)

\* The exit contract of the scripts that submit: exit code 0 exactly when
\* every step succeeded, exit code 1 and the diagnostic otherwise.
ExitContractOfSendingScripts ==
  \A i \in Inv : (Exited(i) /\ ~StatusCheck(i)) =>
    /\ proc[i].exitCode = {0} <=> EveryStepSucceeded(i)
    /\ proc[i].exitCode = {1} <=> proc[i].error # ""
    /\ proc[i].error # "" => "diagnostic" \in proc[i].out
    /\ proc[i].exitCode \in {{0}, {1}}

\* The deployment checks made so far, each with the block height it was made at.
DeploymentChecks ==
  UNION { {[block |-> b, answer |-> a] : b \in proc[i].checkedAtBlock, a \in proc[i].isDeployed}
          \cup {[block |-> b, answer |-> a] :
                  b \in proc[i].checkedAfterAtBlock, a \in proc[i].isDeployedAfter}
          : i \in Inv }

\* The steps that are a deployment check.
CheckSteps == {"isDeployed", "statusDeployed", "isDeployedAfter"}

\* C18: two deployment checks with no transaction mined between them (the same
\* block height) give the same answer, and a deployment check changes nothing
\* on the chain and nothing in another run.
C18_RecheckIdempotent ==
  /\ [](\A c, d \in DeploymentChecks : c.block = d.block => c.answer = d.answer)
  /\ [][\A i \in Inv : (proc[i].pc \in CheckSteps /\ proc'[i] # proc[i]) =>
          (chainVars' = chainVars /\ \A j \in Inv \ {i} : proc'[j] = proc[j])]_vars

\* C18 witness: the checker and a send script checked at the same block height,
\* twice with the account deployed.
C18_Witness ==
  \E i, j \in Inv :
    /\ i # j
    /\ StatusCheck(i)
    /\ Send7702(j)
    /\ proc[i].isDeployed = {TRUE}
    /\ proc[i].checkedAtBlock \in {proc[j].checkedAtBlock, proc[j].checkedAfterAtBlock}

\* The calls of process i that have resolved.
Resolved(i) == {c \in Callers : proc[i].callers[c].pc = "done"}

\* C19 as stated: in one process the account is constructed at most once, the
\* client at most once, and all resolved calls of the same getter hold the same
\* instance.
C19_SingletonClients ==
  \A i \in Inv :
    /\ proc[i].accountsMade <= 1
    /\ proc[i].clientsMade <= 1
    /\ \A c, d \in Resolved(i) :
         proc[i].callers[c].fn = proc[i].callers[d].fn =>
           proc[i].callers[c].result = proc[i].callers[d].result

\* Two calls of getSmartAccountClient, the second made before the first had
\* resolved, resolved to two different clients built on two different accounts.
C19_Witness ==
  \E i \in Inv : \E c, d \in Resolved(i) :
    /\ proc[i].callers[c].fn = "client"
    /\ proc[i].callers[d].fn = "client"
    /\ proc[i].callers[c].result # proc[i].callers[d].result
    /\ proc[i].accountsMade = 2
    /\ proc[i].clientsMade = 2

\* No more instances are constructed than calls are made, a client is built
\* only on an account a call has obtained, and as long as one account and one
\* client have been constructed all resolved calls of a getter hold the same
\* instance.
AwaitedCallsShareInstance ==
  \A i \in Inv :
    /\ proc[i].accountsMade <= MaxCallers
    /\ proc[i].clientsMade <= proc[i].accountsMade + 1
    /\ ((\A c \in Callers : proc[i].callers[c].pc \in {"idle", "done"})
          /\ proc[i].accountsMade <= 1 /\ proc[i].clientsMade <= 1) =>
         \A c, d \in Resolved(i) :
           proc[i].callers[c].fn = proc[i].callers[d].fn =>
             proc[i].callers[c].result = proc[i].callers[d].result

\* The submissions of run i whose receipt the run has not obtained.
Awaiting(i) ==
  {h \in {proc[i].ethTxHash} \ {NoHash} : proc[i].ethReceipt.status = "none"}
  \cup {h \in {proc[i].hash} \ {NoHash} : proc[i].receipt.status = "none"}

\* A run submits only when it has the receipt of its earlier submission.
OneSubmissionAtATime ==
  \A i \in Inv :
    /\ Cardinality(Awaiting(i)) <= 1
    /\ proc[i].sendCalls <= 1
    /\ (Fund(i) /\ proc[i].sendCalls = 1) => proc[i].ethReceipt.status = "success"

C21_SubmissionDestination ==
  /\ \A i \in Inv : \A tx \in proc[i].txParams : Send7702(i) =>
       /\ tx.value = 0
       /\ proc[i].script = "batch" =>
            /\ tx.to = Owner
            /\ tx.data = EncodeCalls(proc[i].calls)
            /\ DecodeCalls(tx.data) =
                 << Call(proc[i].env.ERC20_TOKEN_ADDRESS, 0,
                         TransferData(proc[i].env.RECEIVER_ADDRESS, amount1)),
                    Call(proc[i].env.ERC20_TOKEN_ADDRESS, 0,
                         TransferData(proc[i].env.RECEIVER_ADDRESS2, amount2)) >>
       /\ proc[i].script = "single" =>
            /\ tx.to = proc[i].env.ERC20_TOKEN_ADDRESS
            /\ tx.data = TransferData(proc[i].env.RECEIVER_ADDRESS, amount)
  /\ \A op \in mempool : \A i \in Inv :
       (op.kind = "op" /\ op.hash = OpHash(i) /\ Send7702(i)) =>
         \E tx \in proc[i].txParams :
           op.callData = EncodeCalls(<<Call(tx.to, tx.value, tx.data)>>)

\* C21 witness: a batch run and a single-transfer run have both submitted, and
\* both operations were mined with success.
C21_Witness ==
  \E i, j \in Inv :
    /\ proc[i].script = "batch"
    /\ proc[j].script = "single"
    /\ proc[i].txParams # {}
    /\ proc[j].txParams # {}
    /\ receipts[OpHash(i)].status = "success"
    /\ receipts[OpHash(j)].status = "success"

\* C22: every authorization a run holds, carries in its submission, or has in
\* the mempool binds the SimpleAccount implementation address, the Sepolia
\* chain id and the value the run's one nonce read returned, which was the
\* EOA's transaction count at that read; the signing is the step right after
\* the nonce read.
C22_AuthorizationContents ==
  /\ \A i \in Inv : \A a \in proc[i].authorization :
       /\ a.contractAddress = "0xe6Cae83BdE06E4c305530e199D7217f42808555B"
       /\ a.chainId = 11155111
       /\ proc[i].nonce = {a.nonce}
       /\ proc[i].txCountAtRead = {a.nonce}
       /\ Count(proc[i].steps, "getNonce") = 1
       /\ \E k \in 1..(Len(proc[i].steps) - 1) :
            proc[i].steps[k] = "getNonce" /\ proc[i].steps[k + 1] = "sign"
       /\ \A tx \in proc[i].txParams :
            "authorization" \in DOMAIN tx => tx.authorization = a
  /\ \A op \in mempool : \A a \in op.auth :
       \E i \in Inv : op.hash = OpHash(i) /\ proc[i].authorization = {a}

\* C22 witness: a batch run and a single-transfer run have each signed an
\* authorization, over different nonce values, and the second one was carried
\* by an operation that was mined with success.
C22_Witness ==
  \E i, j \in Inv :
    /\ i < j
    /\ {proc[i].script, proc[j].script} = {"single", "batch"}
    /\ proc[i].authorization # {}
    /\ proc[j].authorization # {}
    /\ proc[i].nonce # proc[j].nonce
    /\ Carried(j)
    /\ receipts[OpHash(j)].status = "success"

\* C23 as stated: a run that has called sendTransaction of the smart account
\* client while the account has no code carries a signed authorization in the
\* parameters of that call, and has checked the deployment before it.  (The
\* account never loses its code, so an account without code now had none at
\* the call.)
C23_AuthorizationAtEverySubmission ==
  \A i \in Inv : (proc[i].sendCalls > 0 /\ ~delegated) =>
    /\ proc[i].isDeployed # {}
    /\ Carried(i)

\* C23 witness: the funding script, run on an account without code, has sent
\* the ETH, and has then handed its token transfer to sendTransaction without
\* a deployment check and without an authorization; the call was rejected.
C23_Witness ==
  \E i \in Inv :
    /\ Fund(i)
    /\ ~delegated
    /\ proc[i].ethReceipt.status = "success"
    /\ proc[i].sendCalls = 1
    /\ proc[i].isDeployed = {}
    /\ ~Carried(i)
    /\ proc[i].error = "submission"

\* What holds of C23: the two send scripts check first and carry an
\* authorization whenever they submit for an account without code.
AuthorizationAtSendScriptSubmissions ==
  \A i \in Inv : (Send7702(i) /\ proc[i].sendCalls > 0 /\ ~delegated) =>
    /\ proc[i].isDeployed = {FALSE}
    /\ Carried(i)

\* C24 as stated: a run of the funding script that has ended in failure has
\* submitted neither the ETH transfer nor the token transfer, one that has ended
\* in success has seen both confirmed, and no run has ended with the ETH
\* transfer confirmed and the token transfer not confirmed.
C24_NoPartialCompletion ==
  \A i \in Inv : (Fund(i) /\ Exited(i)) =>
    /\ proc[i].exitCode = {1} => (proc[i].ethTxHash = NoHash /\ proc[i].hash = NoHash)
    /\ proc[i].exitCode = {0} =>
         (proc[i].ethReceipt.status = "success" /\ proc[i].receipt.status = "success")
    /\ proc[i].ethReceipt.status = "success" => proc[i].receipt.status = "success"

\* C24 witness: a run of the funding script has ended with exit code 1 after
\* its ETH transfer was confirmed: the new wallet holds the 0.1 ETH and none of
\* the tokens, and no token transfer of this run is mined or in the mempool.
C24_Witness ==
  \E i \in Inv :
    /\ Fund(i)
    /\ Exited(i)
    /\ proc[i].exitCode = {1}
    /\ proc[i].ethReceipt.status = "success"
    /\ ethBalance[NewWallet] >= ethToSend
    /\ balance[NewWallet] = 0
    /\ receipts[OpHash(i)].status = "none"
    /\ \A op \in mempool : op.hash # OpHash(i)

\* What holds of C24: a run of the funding script that ends in success has seen
\* both transfers confirmed, and the new wallet holds the ETH and the tokens.
FundingSuccessSentBoth ==
  \A i \in Inv : (Fund(i) /\ proc[i].exitCode = {0}) =>
    /\ proc[i].ethReceipt.status = "success"
    /\ proc[i].receipt.status = "success"
    /\ ethBalance[NewWallet] >= ethToSend
    /\ balance[NewWallet] >= ttkToSend

\* C25: a run of the funding script that has submitted anything read an ETH
\* balance of at least 0.1 ETH and a token balance of at least 10,000 TTK; a run
\* that failed on one of the two checks has submitted nothing and has nothing in
\* the mempool or mined; and a run has called sendTransaction for the tokens
\* only with the successful receipt of its ETH transfer in hand.
C25_FundingPreconditions ==
  \A i \in Inv : Fund(i) =>
    /\ (proc[i].ethTxHash # NoHash \/ proc[i].sent > 0 \/ proc[i].sendCalls > 0) =>
         /\ \E b \in proc[i].currentEthBalance : b >= ethToSend
         /\ \E b \in proc[i].currentTtkBalance : b >= ttkToSend
    /\ proc[i].error = "precondition" =>
         /\ proc[i].sent = 0
         /\ proc[i].sendCalls = 0
         /\ proc[i].ethTxHash = NoHash
         /\ proc[i].hash = NoHash
         /\ receipts[EthHash(i)].status = "none"
         /\ receipts[OpHash(i)].status = "none"
         /\ \A tx \in mempool : tx.hash \notin {EthHash(i), OpHash(i)}
    /\ proc[i].sendCalls > 0 =>
         /\ proc[i].ethReceipt.status = "success"
         /\ receipts[EthHash(i)].status = "success"

\* C25 witness: one run of the funding script sent the ETH, read its
\* successful receipt and then called sendTransaction for the tokens; the next
\* run found less than 0.1 ETH and ended without submitting anything.
C25_Witness ==
  \E i, j \in Inv :
    /\ i < j
    /\ Fund(i)
    /\ proc[i].ethReceipt.status = "success"
    /\ proc[i].sendCalls = 1
    /\ Fund(j)
    /\ proc[j].error = "precondition"
    /\ ethBalance[Owner] < ethToSend
    /\ proc[j].sent = 0

\* The other case of C25: a run found enough ETH and fewer than 10,000 TTK,
\* and ended without submitting anything.
FundingRefusedForTokens ==
  \E i \in Inv :
    /\ Fund(i)
    /\ proc[i].error = "precondition"
    /\ ethBalance[Owner] >= ethToSend
    /\ balance[Owner] < ttkToSend
    /\ proc[i].sent = 0

\* C26: a run of a send script whose sendTransaction call was rejected has
\* ended with exit code 1 and the debug information in its output; the
\* rejected call was its last step; it holds no hash and no receipt, has made
\* no second deployment check and no final balance read, and has printed
\* neither a confirmation nor a report; nothing of it is in the mempool or
\* mined.
C26_SubmissionFailurePath ==
  \A i \in Inv : (Send7702(i) /\ proc[i].error = "submission") =>
    /\ Exited(i)
    /\ proc[i].exitCode = {1}
    /\ {"debug", "diagnostic"} \subseteq proc[i].out
    /\ proc[i].isDeployed # {}
    /\ proc[i].txParams # {}
    /\ proc[i].steps[Len(proc[i].steps)] = "send"
    /\ Count(proc[i].steps, "wait") = 0
    /\ proc[i].hash = NoHash
    /\ proc[i].receipt = NoReceipt
    /\ proc[i].isDeployedAfter = {}
    /\ proc[i].senderBalanceAfter = {}
    /\ proc[i].receiver1BalanceAfter = {}
    /\ proc[i].receiver2BalanceAfter = {}
    /\ proc[i].out \cap {"sent", "confirmed", "deployed-atomically", "success-report",
                         "transfer-found", "transfer-not-found", "warning"} = {}
    /\ receipts[OpHash(i)].status = "none"
    /\ \A op \in mempool : op.hash # OpHash(i)

\* C26 witness: after a run that deployed the account, the submission of a
\* second run, which saw the account deployed and carried no authorization,
\* was rejected.
C26_Witness ==
  \E i, j \in Inv :
    /\ i < j
    /\ receipts[OpHash(i)].status = "success"
    /\ Send7702(j)
    /\ proc[j].error = "submission"
    /\ proc[j].isDeployed = {TRUE}
    /\ ~Carried(j)
    /\ "debug" \in proc[j].out

\* The other case of C26: the rejected submission carried an authorization.
RejectedWithAuthorization ==
  \E i \in Inv :
    /\ Send7702(i)
    /\ proc[i].error = "submission"
    /\ proc[i].isDeployed = {FALSE}
    /\ Carried(i)

\* C27 as stated: a single-transfer run has printed its final report only with
\* a receipt that is not reverted and in whose logs a Transfer event of the
\* token was found; a batch run has printed its report only with a receipt
\* that is not reverted and holds exactly two such events.
C27_SuccessOnlyWhenObserved ==
  \A i \in Inv : "success-report" \in proc[i].out =>
    /\ proc[i].script = "single" =>
         (proc[i].receipt.status = "success" /\ proc[i].receipt.transferEvents >= 1)
    /\ proc[i].script = "batch" =>
         (proc[i].receipt.status = "success" /\ proc[i].receipt.transferEvents = 2)

\* C27 witness: a single-transfer run read a confirmed receipt without a
\* Transfer event, printed that the event was not found, and then printed its
\* final report and ended with exit code 0; the receiver got nothing.
C27_Witness ==
  \E i \in Inv :
    /\ proc[i].script = "single"
    /\ proc[i].receipt.status = "success"
    /\ proc[i].receipt.transferEvents = 0
    /\ {"transfer-not-found", "success-report"} \subseteq proc[i].out
    /\ proc[i].exitCode = {0}
    /\ proc[i].receiver1BalanceAfter = proc[i].receiver1BalanceBefore

\* What holds of C27: no report is printed with a reverted receipt, and the
\* batch script prints its report only with exactly two Transfer events; with
\* another number it prints the warning.
ReportOfBatchOnlyWhenObserved ==
  \A i \in Inv :
    /\ "success-report" \in proc[i].out => proc[i].receipt.status = "success"
    /\ (proc[i].script = "batch" /\ "success-report" \in proc[i].out) =>
         proc[i].receipt.transferEvents = 2
    /\ (proc[i].script = "batch" /\ proc[i].exitCode = {0}
          /\ proc[i].receipt.transferEvents # 2) => "warning" \in proc[i].out

\* C28 as stated: the status checker has printed that the bundler connection
\* was successful only when the bundler was reachable with its configuration,
\* and a run that got to the connection test with an unreachable bundler has
\* reported the connection as failed and ended with a non-zero exit code.
C28_ConnectivityCheckIsReal ==
  \A i \in Inv : StatusCheck(i) =>
    /\ "connection-ok" \in proc[i].out => BundlerReachable(proc[i].env)
    /\ (Exited(i) /\ ~BundlerReachable(proc[i].env) /\ proc[i].error = "") =>
         (proc[i].exitCode = {1} /\ "connection-failed" \in proc[i].out)

\* C28 witness: a run of the status checker whose bundler key is not accepted
\* made its three chain reads, sent nothing to the bundler, printed that the
\* connection was successful and ended with exit code 0.
C28_Witness ==
  \E i \in Inv :
    /\ StatusCheck(i)
    /\ ~BundlerReachable(proc[i].env)
    /\ proc[i].netCalls = 3
    /\ proc[i].sendCalls = 0
    /\ {"connection-ok", "complete"} \subseteq proc[i].out
    /\ proc[i].exitCode = {0}

\* The steps of deployToken's main(), in the order of the source.
DeployOrder == <<"compile", "deploy", "verify", "updateEnv">>

\* C29: the steps a run of deployToken has taken are an initial segment of
\* compile, deploy, verify, update-.env; a step changes the .env file only if
\* it is the update step of a run that compiled, holds a deployment receipt
\* with status success and has made its verification reads with no failed
\* request; and a run that ended with a failure never wrote the file.
C29_DeployOrdering ==
  /\ [](\A i \in Inv : Deploy(i) =>
          /\ IsPrefix(proc[i].steps, DeployOrder)
          /\ proc[i].exitCode = {1} => Count(proc[i].steps, "updateEnv") = 0
          /\ Count(proc[i].steps, "updateEnv") = 1 =>
               /\ proc[i].steps = DeployOrder
               /\ proc[i].receipt.status = "success"
               /\ proc[i].failedReads = 0
               /\ proc[i].exitCode = {0})
  /\ [][envFile' # envFile =>
          \E i \in Inv :
            /\ Deploy(i)
            /\ proc[i].steps = <<"compile", "deploy", "verify">>
            /\ proc[i].receipt.status = "success"
            /\ receipts[DeployHash(i)].status = "success"
            /\ proc[i].failedReads = 0
            /\ proc'[i].steps = DeployOrder
            /\ proc'[i].exitCode = {0}]_vars

\* C29 witness: a run of deployToken went through the four steps and wrote
\* the address of the deployed token into .env.
C29_Witness ==
  \E i \in Inv :
    /\ Deploy(i)
    /\ proc[i].steps = DeployOrder
    /\ proc[i].receipt.status = "success"
    /\ proc[i].exitCode = {0}
    /\ EnvValue(envFile, "ERC20_TOKEN_ADDRESS") = Token

\* The other case of C29: the deployment was reverted and the run ended with
\* the .env file as it found it.
RevertedDeployLeavesEnvFile ==
  \E i \in Inv :
    /\ Deploy(i)
    /\ proc[i].receipt.status = "reverted"
    /\ proc[i].exitCode = {1}
    /\ proc[i].steps = <<"compile", "deploy">>
    /\ EnvValue(envFile, "ERC20_TOKEN_ADDRESS") \in {Undefined, Placeholder}

\* A call of updateEnvFile that process i has made.
Updated(i) == proc[i].pc = "exit"

\* C30 as stated: after updateEnvFile(addr) the file holds the line
\* ERC20_TOKEN_ADDRESS=addr, every line that was there and does not define
\* ERC20_TOKEN_ADDRESS is as it was, keys that end in that name included, and a
\* second call with the same address writes the same content.
C30_UpdateEnvFileResult ==
  \A i \in Inv : Updated(i) =>
    /\ \E k \in 1..Len(proc[i].written) :
         proc[i].written[k] = EnvLine("ERC20_TOKEN_ADDRESS", Token)
    /\ Len(proc[i].written) >= Len(proc[i].envContent)
    /\ \A k \in 1..Len(proc[i].envContent) :
         proc[i].envContent[k].key # "ERC20_TOKEN_ADDRESS" =>
           proc[i].written[k] = proc[i].envContent[k]
    /\ \A j \in Inv : (j < i /\ Updated(j)) => proc[i].written = proc[j].written

\* C30 witness: the file held OLD_ERC20_TOKEN_ADDRESS=0x above
\* ERC20_TOKEN_ADDRESS=0x; the call rewrote the first of the two lines and left
\* the definition of ERC20_TOKEN_ADDRESS at the placeholder.
C30_Witness ==
  \E i \in Inv :
    /\ Updated(i)
    /\ proc[i].envContent = << EnvLine("OLD_ERC20_TOKEN_ADDRESS", Placeholder),
                               EnvLine("ERC20_TOKEN_ADDRESS", Placeholder) >>
    /\ proc[i].written = << EnvLine("OLD_ERC20_TOKEN_ADDRESS", Token),
                            EnvLine("ERC20_TOKEN_ADDRESS", Placeholder) >>
    /\ envFile = proc[i].written
    /\ EnvValue(envFile, "ERC20_TOKEN_ADDRESS") = Placeholder

\* What holds of C30: a second call writes what the first wrote; and on a file
\* in which no other key ends in ERC20_TOKEN_ADDRESS the call leaves every
\* other line as it was and the file holds the line ERC20_TOKEN_ADDRESS=addr.
UpdateEnvFileOnPlainFiles ==
  \A i \in Inv : Updated(i) =>
    /\ \A j \in Inv : (j < i /\ Updated(j)) => proc[i].written = proc[j].written
    /\ (\A k \in 1..Len(proc[i].envContent) :
          proc[i].envContent[k].key # "OLD_ERC20_TOKEN_ADDRESS") =>
         /\ \E k \in 1..Len(proc[i].written) :
              proc[i].written[k] = EnvLine("ERC20_TOKEN_ADDRESS", Token)
         /\ \A k \in 1..Len(proc[i].envContent) :
              proc[i].envContent[k].key # "ERC20_TOKEN_ADDRESS" =>
                proc[i].written[k] = proc[i].envContent[k]

====
